---------------------------- MODULE Spec2Model ----------------------------
(***************************************************************************)
(* A model of the OpenPGP key handling of rnp: the transferable key model  *)
(* and its merge algebra, the transferable key stream parser and writer,   *)
(* the protection of secret key material, and the structural validation of *)
(* keys (stream-key.cpp, pgp-key.cpp, key_store_pgp.cpp).                  *)
(*                                                                         *)
(* The module holds one specification per subsystem.  Each of them leaves  *)
(* the variables of the other subsystems at their idle values.             *)
(***************************************************************************)
EXTENDS Integers, Sequences, FiniteSets, TLC

VARIABLES
    \* merge algebra
    dst,        \* the transferable key / subkey / userid merged into
    src,        \* the one merged from
    dst0,       \* dst before the last operation
    src0,       \* src before the last operation
    ret,        \* the result of the last operation
    op,         \* the last operation
    \* key streams
    wkeys,      \* the sequence of transferable keys that is written
    warmor,     \* whether it is written armored
    stream,     \* what write_pgp_keys wrote
    wret,       \* the result of write_pgp_keys
    parsed,     \* the key sequence process_pgp_keys built
    pret,       \* the result of process_pgp_keys
    pfuel,      \* the allocations the last parse could make (-1: any number)
    plog,       \* the memset and destroy calls of the last parse, in order
    sop,        \* the last stream operation
    \* secret key protection
    seckey,     \* the secret key packet
    seckey0,    \* the key packet before encrypt_secret_key
    kbefore,    \* the key packet before the last operation
    kret,       \* the result of the last operation
    kop,        \* the last operation
    kpw,        \* the password of the last operation
    kenv,       \* the step of the last operation that was made to fail
    kdec,       \* the bytes decrypt_secret_key gave to parse_secret_key_mpis
    encpw,      \* the password of encrypt_secret_key
    encret,     \* the result of encrypt_secret_key
    intact,     \* the stored blob is what encrypt_secret_key stored
    kkeybuf,    \* what the derived-key buffer was left with
    kbuf,       \* what the cleartext working buffer was left with
    \* key validation
    ring,       \* the keys of the key store
    ring0,      \* the keys before the last validation
    vkey,       \* the index of the key validated last
    vret,       \* the result of pgp_key_validate
    vlog,       \* the runs of pgp_key_validate and the changes between them
    vop,        \* the number of validations so far
    \* key locking and protection
    pgpkey,     \* the key: its key packet, raw packet 0 and format
    pgpkey0,    \* the key in the initial state
    pgpbefore,  \* the key before the last operation
    keyop,      \* the last operation
    keyres,     \* what the last operation returned
    pwbuf,      \* what the local password buffers held at the return
    asked,      \* the password provider was asked for a password
    nops,       \* the number of operations so far
    \* self-signatures
    sgkey,      \* the primary key packet
    sgtarget,   \* the userid or the subkey that is signed
    sgbefore,   \* the userid or the subkey before the last operation
    sgres,      \* the signature the last operation returned, if any
    sgop,       \* the last operation
    sgargs,     \* the arguments of the last operation
    nsigns,     \* the number of operations so far
    \* key store
    kstore,     \* the keys of the key store
    sdst,       \* the destination rnp_key_store_pgp_write_to_dst writes to
    sres,       \* what rnp_key_store_pgp_write_to_dst returned
    tkey,       \* the transferable key a key is built from
    rkey,       \* the key rnp_key_from_transferable_key built
    rres,       \* what rnp_key_from_transferable_key returned
    stop,       \* the last key store operation
    kstore0,    \* the keys of the key store before the last operation
    ssrc,       \* the source the key store was read from
    sret,       \* what the last operation on a source or a key returned
    tfrom       \* the transferable key transferable_key_from_key gave

mergeVars == <<dst, src, dst0, src0, ret, op>>

streamVars ==
    <<wkeys, warmor, stream, wret, parsed, pret, sop, pfuel, plog>>

secretVars ==
    <<seckey, seckey0, kbefore, kret, kop, kpw, kenv, kdec, encpw, encret,
      intact, kkeybuf, kbuf>>

validateVars == <<ring, ring0, vkey, vret, vop, vlog>>

keyVars == <<pgpkey, pgpkey0, pgpbefore, keyop, keyres, pwbuf, asked, nops>>

signVars == <<sgkey, sgtarget, sgbefore, sgres, sgop, sgargs, nsigns>>

storeVars ==
    <<kstore, sdst, sres, tkey, rkey, rres, stop, kstore0, ssrc, sret, tfrom>>

vars ==
    <<mergeVars, streamVars, secretVars, validateVars, keyVars, signVars,
      storeVars>>

\* what the actions of one specification leave alone
mergeFrame ==
    <<streamVars, secretVars, validateVars, keyVars, signVars,
      storeVars>>

streamFrame ==
    <<mergeVars, secretVars, validateVars, keyVars, signVars,
      storeVars>>

secretFrame ==
    <<mergeVars, streamVars, validateVars, keyVars, signVars,
      storeVars>>

validateFrame ==
    <<mergeVars, streamVars, secretVars, keyVars, signVars,
      storeVars>>

keyFrame ==
    <<mergeVars, streamVars, secretVars, validateVars, signVars,
      storeVars>>

signFrame ==
    <<mergeVars, streamVars, secretVars, validateVars, keyVars,
      storeVars>>

storeFrame ==
    <<mergeVars, streamVars, secretVars, validateVars, keyVars, signVars>>

(***************************************************************************)
(* Bounds of the model.                                                    *)
(***************************************************************************)
\* distinct signature packets
NSigs == 2
\* distinct userid packets
NUids == 2
\* distinct public key materials
NKeys == 2
\* packets following the primary key packet in a key stream
MaxPkts == 4
\* keys of a key sequence, and the packets that follow their primary key
\* packets, all together
MaxSeqKeys == 2
MaxSeqPkts == 3
\* allocations that succeed before one fails (in the runs where one fails)
MaxAlloc == 2

(***************************************************************************)
(* Packet tags (RFC 4880, 4.3) and the results of stream_pkt_type.         *)
(***************************************************************************)
PGP_PKT_SIGNATURE == 2
PGP_PKT_SECRET_KEY == 5
PGP_PKT_PUBLIC_KEY == 6
PGP_PKT_SECRET_SUBKEY == 7
PGP_PKT_TRUST == 12
PGP_PKT_USER_ID == 13
PGP_PKT_PUBLIC_SUBKEY == 14
PGP_PKT_USER_ATTR == 17

\* key packet versions, and the size of a SHA-1 digest
PGP_V3 == 3
PGP_V4 == 4
PGP_SHA1_HASH_SIZE == 20

is_subkey_pkt(tag) ==
    tag \in {PGP_PKT_PUBLIC_SUBKEY, PGP_PKT_SECRET_SUBKEY}

is_primary_key_pkt(tag) ==
    tag \in {PGP_PKT_PUBLIC_KEY, PGP_PKT_SECRET_KEY}

is_public_key_pkt(tag) ==
    tag \in {PGP_PKT_PUBLIC_KEY, PGP_PKT_PUBLIC_SUBKEY}

is_secret_key_pkt(tag) ==
    tag \in {PGP_PKT_SECRET_KEY, PGP_PKT_SECRET_SUBKEY}

(***************************************************************************)
(* Packets.  A signature packet is [tag, sig], a userid packet [tag, uid], *)
(* a key packet [tag, pub, sec]: pub stands for the public fields and the  *)
(* public material, sec for the stored secret blob (0: none).  Two packets *)
(* hold the same bytes iff they are the same value.                        *)
(***************************************************************************)
signature_pkt_equal(sig1, sig2) ==
    sig1 = sig2

userid_pkt_equal(uid1, uid2) ==
    uid1.tag = uid2.tag /\ uid1.uid = uid2.uid

key_pkt_equal(key1, key2, pubonly) ==
    /\ IF pubonly
       THEN is_subkey_pkt(key1.tag) = is_subkey_pkt(key2.tag)
       ELSE key1.tag = key2.tag
    /\ key1.pub = key2.pub
    /\ pubonly \/ key1.sec = key2.sec

\* the public variant of a key packet tag
PublicTag(tag) ==
    IF tag = PGP_PKT_SECRET_KEY THEN PGP_PKT_PUBLIC_KEY
    ELSE IF tag = PGP_PKT_SECRET_SUBKEY THEN PGP_PKT_PUBLIC_SUBKEY
    ELSE tag

copy_key_pkt(key, pubonly) ==
    IF pubonly
    THEN [tag |-> PublicTag(key.tag), pub |-> key.pub, sec |-> 0]
    ELSE key

(***************************************************************************)
(* Allocation.  fuel is the number of allocations that still succeed; a    *)
(* negative fuel never runs out.                                           *)
(***************************************************************************)
CanAlloc(fuel) == fuel # 0

Spend(fuel) == IF fuel < 0 THEN fuel ELSE fuel - 1

Fuels == {-1} \cup (0 .. MaxAlloc)

(***************************************************************************)
(* The merge algebra of transferable keys.  An operator returns the result *)
(* code, the merged object and the allocations left.  A value computed by  *)
(* a call is handed to a local operator, which stands for the code that    *)
(* follows the call.                                                       *)
(***************************************************************************)
list_has_signature(lst, sig) ==
    \E i \in 1 .. Len(lst) : signature_pkt_equal(lst[i], sig)

\* every signature is appended and copied: one allocation each; on failure
\* the destination list is destroyed
copy_signatures(sigs, fuel) ==
    IF fuel < 0 \/ fuel >= Len(sigs)
    THEN [ok |-> TRUE, val |-> sigs,
          fuel |-> IF fuel < 0 THEN fuel ELSE fuel - Len(sigs)]
    ELSE [ok |-> FALSE, val |-> <<>>, fuel |-> 0]

\* a merge that appends every signature of src, equal to one of dst or not
merge_signatures_all(d, s, fuel) ==
    [ret |-> "RNP_SUCCESS", val |-> d \o s, fuel |-> fuel]

RECURSIVE merge_signatures(_, _, _)
merge_signatures(d, s, fuel) ==
    IF s = <<>>
    THEN [ret |-> "RNP_SUCCESS", val |-> d, fuel |-> fuel]
    ELSE IF list_has_signature(d, Head(s))
    THEN merge_signatures(d, Tail(s), fuel)
    ELSE IF ~CanAlloc(fuel)
    THEN [ret |-> "RNP_ERROR_OUT_OF_MEMORY", val |-> d, fuel |-> fuel]
    ELSE merge_signatures(Append(d, Head(s)), Tail(s), Spend(fuel))

\* a userid merge that does not compare the userid packets
transferable_userid_merge_any(d, s, fuel) ==
    [ret |-> "RNP_SUCCESS",
     val |-> [d EXCEPT !.signatures =
                         merge_signatures(d.signatures, s.signatures,
                                          -1).val],
     fuel |-> fuel]

transferable_userid_merge(d, s, fuel) ==
    LET Merged(m) == [ret |-> m.ret, val |-> [d EXCEPT !.signatures = m.val],
                      fuel |-> m.fuel]
    IN  IF ~userid_pkt_equal(d.uid, s.uid)
        THEN [ret |-> "RNP_ERROR_BAD_PARAMETERS", val |-> d, fuel |-> fuel]
        ELSE Merged(merge_signatures(d.signatures, s.signatures, fuel))

\* the userid packet takes one allocation, then its signatures are copied
transferable_userid_copy(s, fuel) ==
    LET Copied(c) ==
          IF c.ok
          THEN [ok |-> TRUE, val |-> [uid |-> s.uid, signatures |-> c.val],
                fuel |-> c.fuel]
          ELSE [ok |-> FALSE, fuel |-> c.fuel]
    IN  IF ~CanAlloc(fuel)
        THEN [ok |-> FALSE, fuel |-> fuel]
        ELSE Copied(copy_signatures(s.signatures, Spend(fuel)))

transferable_subkey_copy(s, pubonly, fuel) ==
    LET Copied(c) ==
          IF c.ok
          THEN [ok |-> TRUE,
                val |-> [subkey |-> copy_key_pkt(s.subkey, pubonly),
                         signatures |-> c.val],
                fuel |-> c.fuel]
          ELSE [ok |-> FALSE, fuel |-> c.fuel]
    IN  IF ~CanAlloc(fuel)
        THEN [ok |-> FALSE, fuel |-> fuel]
        ELSE Copied(copy_signatures(s.signatures, Spend(fuel)))

\* transferable_key_destroy leaves the memset key
DestroyedKey ==
    [key |-> [tag |-> 0, pub |-> 0, sec |-> 0], signatures |-> <<>>,
     userids |-> <<>>, subkeys |-> <<>>]

\* a key copy that keeps the key packets as they are
transferable_key_copy_as_is(s, pubonly, fuel) ==
    [ok |-> TRUE, val |-> s, fuel |-> fuel]

\* the key packet, the userids, the subkeys and then the direct-key
\* signatures are copied; a list item takes one allocation
transferable_key_copy(s, pubonly, fuel) ==
    LET Failed(f) == [ok |-> FALSE, val |-> DestroyedKey, fuel |-> f]
        Signatures(d, c) ==
          IF ~c.ok THEN Failed(c.fuel)
          ELSE [ok |-> TRUE, val |-> [d EXCEPT !.signatures = c.val],
                fuel |-> c.fuel]
        RECURSIVE Subkeys(_, _, _)
        Subkeys(d, i, f) ==
          LET Copied(c) ==
                IF ~c.ok THEN Failed(c.fuel)
                ELSE Subkeys([d EXCEPT !.subkeys = Append(@, c.val)], i + 1,
                             c.fuel)
          IN  IF i > Len(s.subkeys)
              THEN Signatures(d, copy_signatures(s.signatures, f))
              ELSE IF ~CanAlloc(f) THEN Failed(f)
              ELSE Copied(transferable_subkey_copy(s.subkeys[i], pubonly,
                                                   Spend(f)))
        RECURSIVE Userids(_, _, _)
        Userids(d, i, f) ==
          LET Copied(c) ==
                IF ~c.ok THEN Failed(c.fuel)
                ELSE Userids([d EXCEPT !.userids = Append(@, c.val)], i + 1,
                             c.fuel)
          IN  IF i > Len(s.userids) THEN Subkeys(d, 1, f)
              ELSE IF ~CanAlloc(f) THEN Failed(f)
              ELSE Copied(transferable_userid_copy(s.userids[i], Spend(f)))
    IN  IF ~CanAlloc(fuel) THEN Failed(fuel)
        ELSE Userids([DestroyedKey EXCEPT
                        !.key = copy_key_pkt(s.key, pubonly)],
                     1, Spend(fuel))

\* a subkey merge that takes the key packet of src
transferable_subkey_merge_packet(d, s, fuel) ==
    IF ~key_pkt_equal(d.subkey, s.subkey, TRUE)
    THEN [ret |-> "RNP_ERROR_BAD_PARAMETERS", val |-> d, fuel |-> fuel]
    ELSE [ret |-> "RNP_SUCCESS",
          val |-> [subkey |-> s.subkey,
                   signatures |-> merge_signatures(d.signatures, s.signatures,
                                                   -1).val],
          fuel |-> fuel]

transferable_subkey_merge(d, s, fuel) ==
    LET Merged(m) == [ret |-> m.ret, val |-> [d EXCEPT !.signatures = m.val],
                      fuel |-> m.fuel]
    IN  IF ~key_pkt_equal(d.subkey, s.subkey, TRUE)
        THEN [ret |-> "RNP_ERROR_BAD_PARAMETERS", val |-> d, fuel |-> fuel]
        ELSE Merged(merge_signatures(d.signatures, s.signatures, fuel))

\* the index of the first userid of key with an equal packet, 0 if none
transferable_key_has_userid(key, userid) ==
    LET hits == {i \in 1 .. Len(key.userids) :
                    userid_pkt_equal(key.userids[i].uid, userid)}
    IN  IF hits = {} THEN 0
        ELSE CHOOSE i \in hits : \A j \in hits : i <= j

\* the index of the first subkey of key with an equal public part, 0 if none
transferable_key_has_subkey(key, subkey) ==
    LET hits == {i \in 1 .. Len(key.subkeys) :
                    key_pkt_equal(key.subkeys[i].subkey, subkey, TRUE)}
    IN  IF hits = {} THEN 0
        ELSE CHOOSE i \in hits : \A j \in hits : i <= j

\* the loop over the userids of src, from the i-th on
RECURSIVE MergeUserids(_, _, _, _)
MergeUserids(d, s, i, fuel) ==
    LET Found(at, m) ==
          IF m.ret # "RNP_SUCCESS"
          THEN [ret |-> m.ret, val |-> [d EXCEPT !.userids[at] = m.val],
                fuel |-> m.fuel]
          ELSE MergeUserids([d EXCEPT !.userids[at] = m.val], s, i + 1,
                            m.fuel)
        \* the list item takes one allocation, the copy the others
        Added(c) ==
          IF ~c.ok
          THEN [ret |-> "RNP_ERROR_OUT_OF_MEMORY", val |-> d, fuel |-> c.fuel]
          ELSE MergeUserids([d EXCEPT !.userids = Append(@, c.val)], s, i + 1,
                            c.fuel)
        Step(luid, at) ==
          IF at # 0
          THEN Found(at, transferable_userid_merge(d.userids[at], luid, fuel))
          ELSE IF ~CanAlloc(fuel)
          THEN [ret |-> "RNP_ERROR_OUT_OF_MEMORY", val |-> d, fuel |-> fuel]
          ELSE Added(transferable_userid_copy(luid, Spend(fuel)))
    IN  IF i > Len(s.userids)
        THEN [ret |-> "RNP_SUCCESS", val |-> d, fuel |-> fuel]
        ELSE Step(s.userids[i],
                  transferable_key_has_userid(d, s.userids[i].uid))

\* the loop over the subkeys of src, from the i-th on
RECURSIVE MergeSubkeys(_, _, _, _)
MergeSubkeys(d, s, i, fuel) ==
    LET Found(at, m) ==
          IF m.ret # "RNP_SUCCESS"
          THEN [ret |-> m.ret, val |-> [d EXCEPT !.subkeys[at] = m.val],
                fuel |-> m.fuel]
          ELSE MergeSubkeys([d EXCEPT !.subkeys[at] = m.val], s, i + 1,
                            m.fuel)
        Added(c) ==
          IF ~c.ok
          THEN [ret |-> "RNP_ERROR_OUT_OF_MEMORY", val |-> d, fuel |-> c.fuel]
          ELSE MergeSubkeys([d EXCEPT !.subkeys = Append(@, c.val)], s, i + 1,
                            c.fuel)
        Step(lskey, at) ==
          IF at # 0
          THEN Found(at, transferable_subkey_merge(d.subkeys[at], lskey, fuel))
          ELSE IF ~CanAlloc(fuel)
          THEN [ret |-> "RNP_ERROR_OUT_OF_MEMORY", val |-> d, fuel |-> fuel]
          ELSE Added(transferable_subkey_copy(lskey, FALSE, Spend(fuel)))
    IN  IF i > Len(s.subkeys)
        THEN [ret |-> "RNP_SUCCESS", val |-> d, fuel |-> fuel]
        ELSE Step(s.subkeys[i],
                  transferable_key_has_subkey(d, s.subkeys[i].subkey))

transferable_key_merge(d, s, fuel) ==
    LET Userids(u) ==
          IF u.ret # "RNP_SUCCESS" THEN u
          ELSE MergeSubkeys(u.val, s, 1, u.fuel)
        Signatures(m) ==
          IF m.ret # "RNP_SUCCESS"
          THEN [ret |-> m.ret, val |-> [d EXCEPT !.signatures = m.val],
                fuel |-> m.fuel]
          ELSE Userids(MergeUserids([d EXCEPT !.signatures = m.val], s, 1,
                                    m.fuel))
    IN  IF ~key_pkt_equal(d.key, s.key, TRUE)
        THEN [ret |-> "RNP_ERROR_BAD_PARAMETERS", val |-> d, fuel |-> fuel]
        ELSE Signatures(merge_signatures(d.signatures, s.signatures, fuel))

(***************************************************************************)
(* Sources and destinations.  A stream is a sequence of items: a packet    *)
(* (a record with a tag) or an armored block [armor, pkts], which holds the*)
(* packets between its header and its footer.  A packet whose tag is       *)
(* negative stands for bytes that are no packet header, a packet whose     *)
(* payload is 0 for a body that does not parse.                            *)
(***************************************************************************)
IsArmor(item) == "armor" \in DOMAIN item

is_armored_source(s) == s # <<>> /\ IsArmor(Head(s))

src_eof(s) == s = <<>>

\* 0 at the end of the source, negative when no packet header can be read
stream_pkt_type(s) ==
    IF src_eof(s) THEN 0
    ELSE IF IsArmor(Head(s)) THEN -1
    ELSE Head(s).tag

stream_write_signature(sig) == [tag |-> PGP_PKT_SIGNATURE, sig |-> sig]

stream_parse_signature(pkt) ==
    IF pkt.sig = 0
    THEN [ret |-> "RNP_ERROR_BAD_FORMAT"]
    ELSE [ret |-> "RNP_SUCCESS", val |-> pkt.sig]

stream_write_userid(userid) == [tag |-> userid.tag, uid |-> userid.uid]

stream_parse_userid(pkt) ==
    IF pkt.uid = 0
    THEN [ret |-> "RNP_ERROR_BAD_FORMAT"]
    ELSE [ret |-> "RNP_SUCCESS", val |-> [tag |-> pkt.tag, uid |-> pkt.uid]]

\* the secret fields are written for the secret tags only, and must be there
stream_write_key(key) ==
    IF is_secret_key_pkt(key.tag)
    THEN IF key.sec = 0
         THEN [ok |-> FALSE]
         ELSE [ok |-> TRUE,
               val |-> [tag |-> key.tag, pub |-> key.pub, sec |-> key.sec]]
    ELSE [ok |-> TRUE, val |-> [tag |-> key.tag, pub |-> key.pub, sec |-> 0]]

\* a secret key packet without secret fields, or a public one with trailing
\* bytes, does not parse
stream_parse_key(pkt) ==
    IF pkt.pub = 0 \/ (is_secret_key_pkt(pkt.tag) <=> pkt.sec = 0)
    THEN [ret |-> "RNP_ERROR_BAD_FORMAT"]
    ELSE [ret |-> "RNP_SUCCESS",
          val |-> [tag |-> pkt.tag, pub |-> pkt.pub, sec |-> pkt.sec]]

(***************************************************************************)
(* The transferable key stream parser.  Every operator returns the result, *)
(* the object built (when it succeeds), the rest of the source and the     *)
(* allocations left.                                                       *)
(***************************************************************************)
\* process_pgp_key_trusts skipping one trust packet at most
process_pgp_key_trusts_one(s) ==
    IF stream_pkt_type(s) = PGP_PKT_TRUST THEN Tail(s) ELSE s

RECURSIVE process_pgp_key_trusts(_)
process_pgp_key_trusts(s) ==
    IF stream_pkt_type(s) = PGP_PKT_TRUST
    THEN process_pgp_key_trusts(Tail(s))
    ELSE s

RECURSIVE process_pgp_key_signatures(_, _, _)
process_pgp_key_signatures(s, sigs, fuel) ==
    LET Parsed(p) ==
          IF p.ret # "RNP_SUCCESS"
          THEN [ret |-> p.ret, val |-> sigs, src |-> s, fuel |-> Spend(fuel)]
          ELSE process_pgp_key_signatures(process_pgp_key_trusts(Tail(s)),
                                          Append(sigs, p.val), Spend(fuel))
        Loop(ptag) ==
          IF ptag # PGP_PKT_SIGNATURE
          THEN [ret |-> IF ptag < 0 THEN "RNP_ERROR_BAD_FORMAT"
                        ELSE "RNP_SUCCESS",
                val |-> sigs, src |-> s, fuel |-> fuel]
          ELSE IF ~CanAlloc(fuel)
          THEN [ret |-> "RNP_ERROR_OUT_OF_MEMORY", val |-> sigs, src |-> s,
                fuel |-> fuel]
          ELSE Parsed(stream_parse_signature(Head(s)))
    IN  Loop(stream_pkt_type(s))

process_pgp_userid(s, fuel) ==
    LET Signatures(uid, g) ==
          IF g.ret # "RNP_SUCCESS"
          THEN [ret |-> g.ret, src |-> g.src, fuel |-> g.fuel]
          ELSE [ret |-> "RNP_SUCCESS",
                val |-> [uid |-> uid, signatures |-> g.val],
                src |-> g.src, fuel |-> g.fuel]
        Parsed(p) ==
          IF p.ret # "RNP_SUCCESS"
          THEN [ret |-> p.ret, src |-> s, fuel |-> fuel]
          ELSE Signatures(p.val,
                          process_pgp_key_signatures(
                            process_pgp_key_trusts(Tail(s)), <<>>, fuel))
        Start(ptag) ==
          IF ptag # PGP_PKT_USER_ID /\ ptag # PGP_PKT_USER_ATTR
          THEN [ret |-> "RNP_ERROR_BAD_FORMAT", src |-> s, fuel |-> fuel]
          ELSE Parsed(stream_parse_userid(Head(s)))
    IN  Start(stream_pkt_type(s))

process_pgp_subkey(s, fuel) ==
    LET Signatures(subkey, g) ==
          IF g.ret # "RNP_SUCCESS"
          THEN [ret |-> g.ret, src |-> g.src, fuel |-> g.fuel]
          ELSE [ret |-> "RNP_SUCCESS",
                val |-> [subkey |-> subkey, signatures |-> g.val],
                src |-> g.src, fuel |-> g.fuel]
        Parsed(p) ==
          IF p.ret # "RNP_SUCCESS"
          THEN [ret |-> p.ret, src |-> s, fuel |-> fuel]
          ELSE Signatures(p.val,
                          process_pgp_key_signatures(
                            process_pgp_key_trusts(Tail(s)), <<>>, fuel))
        Start(ptag) ==
          IF ~is_subkey_pkt(ptag)
          THEN [ret |-> "RNP_ERROR_BAD_FORMAT", src |-> s, fuel |-> fuel]
          ELSE Parsed(stream_parse_key(Head(s)))
    IN  Start(stream_pkt_type(s))

\* the loop over the userids and user attributes of a key
RECURSIVE ParseUserids(_, _, _)
ParseUserids(s, uids, fuel) ==
    LET Userid(u) ==
          IF u.ret # "RNP_SUCCESS"
          THEN [ret |-> u.ret, src |-> u.src, fuel |-> u.fuel]
          ELSE ParseUserids(u.src, Append(uids, u.val), u.fuel)
        Loop(ptag) ==
          IF ptag = 0 \/ (ptag # PGP_PKT_USER_ID /\ ptag # PGP_PKT_USER_ATTR)
          THEN [ret |-> "RNP_SUCCESS", val |-> uids, src |-> s, fuel |-> fuel]
          ELSE IF ~CanAlloc(fuel)
          THEN [ret |-> "RNP_ERROR_OUT_OF_MEMORY", src |-> s, fuel |-> fuel]
          ELSE Userid(process_pgp_userid(s, Spend(fuel)))
    IN  Loop(stream_pkt_type(s))

\* the loop over the subkeys of a key; the result is that of the tag the
\* loop ended on
RECURSIVE ParseSubkeys(_, _, _)
ParseSubkeys(s, skeys, fuel) ==
    LET Subkey(k) ==
          IF k.ret # "RNP_SUCCESS"
          THEN [ret |-> k.ret, src |-> k.src, fuel |-> k.fuel]
          ELSE ParseSubkeys(k.src, Append(skeys, k.val), k.fuel)
        Loop(ptag) ==
          IF ptag = 0 \/ ~is_subkey_pkt(ptag)
          THEN [ret |-> IF ptag >= 0 THEN "RNP_SUCCESS"
                        ELSE "RNP_ERROR_BAD_FORMAT",
                val |-> skeys, src |-> s, fuel |-> fuel]
          ELSE IF ~CanAlloc(fuel)
          THEN [ret |-> "RNP_ERROR_OUT_OF_MEMORY", src |-> s, fuel |-> fuel]
          ELSE Subkey(process_pgp_subkey(s, Spend(fuel)))
    IN  Loop(stream_pkt_type(s))

\* process_pgp_key on the packets of its source
ParseKeyPackets(s, fuel) ==
    LET Subkeys(key, sigs, uids, k) ==
          IF k.ret # "RNP_SUCCESS"
          THEN [ret |-> k.ret, src |-> k.src, fuel |-> k.fuel]
          ELSE [ret |-> "RNP_SUCCESS",
                val |-> [key |-> key, signatures |-> sigs, userids |-> uids,
                         subkeys |-> k.val],
                src |-> k.src, fuel |-> k.fuel]
        Userids(key, sigs, u) ==
          IF u.ret # "RNP_SUCCESS"
          THEN [ret |-> u.ret, src |-> u.src, fuel |-> u.fuel]
          ELSE Subkeys(key, sigs, u.val, ParseSubkeys(u.src, <<>>, u.fuel))
        Signatures(key, g) ==
          IF g.ret # "RNP_SUCCESS"
          THEN [ret |-> g.ret, src |-> g.src, fuel |-> g.fuel]
          ELSE Userids(key, g.val, ParseUserids(g.src, <<>>, g.fuel))
        Parsed(p) ==
          IF p.ret # "RNP_SUCCESS"
          THEN [ret |-> p.ret, src |-> s, fuel |-> fuel]
          ELSE Signatures(p.val,
                          process_pgp_key_signatures(
                            process_pgp_key_trusts(Tail(s)), <<>>, fuel))
        Start(ptag) ==
          IF ptag <= 0 \/ ~is_primary_key_pkt(ptag)
          THEN [ret |-> "RNP_ERROR_BAD_FORMAT", src |-> s, fuel |-> fuel]
          ELSE Parsed(stream_parse_key(Head(s)))
    IN  Start(stream_pkt_type(s))

\* process_pgp_key taking bytes that are no packet header for the end of
\* the source
process_pgp_key_lenient(s, fuel) ==
    LET pkts == IF is_armored_source(s) THEN Head(s).pkts ELSE s
        r == ParseKeyPackets(SelectSeq(pkts, LAMBDA pkt : pkt.tag >= 0), fuel)
    IN  IF is_armored_source(s) THEN [r EXCEPT !.src = Tail(s)] ELSE r

\* an armored source is opened first; the packets that follow the key in
\* the block are left unread when the armored source is closed
process_pgp_key(s, fuel) ==
    LET Closed(armored, r) ==
          IF armored THEN [r EXCEPT !.src = Tail(s)] ELSE r
    IN  Closed(is_armored_source(s),
               ParseKeyPackets(IF is_armored_source(s) THEN Head(s).pkts
                               ELSE s, fuel))

\* the loop of process_pgp_keys returning, on an error, the keys read so far
RECURSIVE ParseKeySequence_partial(_, _, _)
ParseKeySequence_partial(s, keys, fuel) ==
    LET Key(k) ==
          IF k.ret # "RNP_SUCCESS"
          THEN [ret |-> k.ret, val |-> keys, src |-> k.src, fuel |-> k.fuel]
          ELSE ParseKeySequence_partial(k.src, Append(keys, k.val), k.fuel)
        Loop(ptag) ==
          IF ptag < 0 \/ ~is_primary_key_pkt(ptag)
          THEN [ret |-> "RNP_ERROR_BAD_FORMAT", val |-> keys, src |-> s,
                fuel |-> fuel]
          ELSE IF ~CanAlloc(fuel)
          THEN [ret |-> "RNP_ERROR_OUT_OF_MEMORY", val |-> keys, src |-> s,
                fuel |-> fuel]
          ELSE Key(process_pgp_key(s, Spend(fuel)))
    IN  IF src_eof(s)
        THEN [ret |-> "RNP_SUCCESS", val |-> keys, src |-> s, fuel |-> fuel]
        ELSE Loop(stream_pkt_type(s))

\* the loop that reads transferable keys until the end of the source
RECURSIVE ParseKeySequence(_, _, _)
ParseKeySequence(s, keys, fuel) ==
    LET Key(k) ==
          IF k.ret # "RNP_SUCCESS"
          THEN [ret |-> k.ret, val |-> <<>>, src |-> k.src, fuel |-> k.fuel]
          ELSE ParseKeySequence(k.src, Append(keys, k.val), k.fuel)
        Loop(ptag) ==
          IF ptag < 0 \/ ~is_primary_key_pkt(ptag)
          THEN [ret |-> "RNP_ERROR_BAD_FORMAT", val |-> <<>>, src |-> s,
                fuel |-> fuel]
          ELSE IF ~CanAlloc(fuel)
          THEN [ret |-> "RNP_ERROR_OUT_OF_MEMORY", val |-> <<>>, src |-> s,
                fuel |-> fuel]
          ELSE Key(process_pgp_key(s, Spend(fuel)))
    IN  IF src_eof(s)
        THEN [ret |-> "RNP_SUCCESS", val |-> keys, src |-> s, fuel |-> fuel]
        ELSE Loop(stream_pkt_type(s))

\* process_pgp_keys reading the first armored block only
ProcessKeysPass_first(s, keys, fuel) ==
    LET r == ParseKeySequence(IF is_armored_source(s) THEN Head(s).pkts
                              ELSE s, keys, fuel)
    IN  IF is_armored_source(s) THEN [r EXCEPT !.src = Tail(s)] ELSE r

\* one pass of process_pgp_keys for each armored block of the source
RECURSIVE ProcessKeysPass(_, _, _)
ProcessKeysPass(s, keys, fuel) ==
    LET Pass(armored, orig, r) ==
          IF armored /\ r.ret = "RNP_SUCCESS" /\ ~src_eof(orig)
               /\ is_armored_source(orig)
          THEN ProcessKeysPass(orig, r.val, r.fuel)
          ELSE IF armored THEN [r EXCEPT !.src = orig] ELSE r
    IN  Pass(is_armored_source(s), Tail(s),
             ParseKeySequence(IF is_armored_source(s) THEN Head(s).pkts
                              ELSE s, keys, fuel))

process_pgp_keys(s, fuel) == ProcessKeysPass(s, <<>>, fuel)

(***************************************************************************)
(* The lifetime of the objects of a parse: the calls of memset and of the  *)
(* destroy routines, in the order the parser makes them.  A key is named   *)
(* by its place in the key sequence, a userid or subkey by that and its    *)
(* place in the list of the key.  The operators walk the source as the     *)
(* parser does and take the results of its calls as arguments.             *)
(***************************************************************************)
ParsedObject(kind, k, i) == [kind |-> kind, key |-> k, idx |-> i]

Memset(obj) == [call |-> "memset", obj |-> obj]

Destroy(obj) == [call |-> "destroy", obj |-> obj]

\* transferable_key_destroy on the k-th key with its userids and subkeys:
\* transferable_userid_destroy and transferable_subkey_destroy on every
\* element, the lists and the key packet after them
transferable_key_destroy_log(k, userids, subkeys) ==
    [i \in 1 .. userids |-> Destroy(ParsedObject("userid", k, i))]
      \o [j \in 1 .. subkeys |-> Destroy(ParsedObject("subkey", k, j))]
      \o <<Destroy(ParsedObject("key", k, 0))>>

\* key_sequence_destroy: keys[k] has the lengths of the lists of the k-th
\* key
RECURSIVE key_sequence_destroy_log(_, _)
key_sequence_destroy_log(keys, k) ==
    IF k > Len(keys) THEN <<>>
    ELSE transferable_key_destroy_log(k, keys[k].userids, keys[k].subkeys)
           \o key_sequence_destroy_log(keys, k + 1)

\* process_pgp_userid(src, uid), u its result: the memset at the start, and
\* transferable_userid_destroy with a memset after it when it fails past
\* the tag test
process_pgp_userid_log(s, u, uid) ==
    IF stream_pkt_type(s) # PGP_PKT_USER_ID
         /\ stream_pkt_type(s) # PGP_PKT_USER_ATTR
    THEN <<Memset(uid)>>
    ELSE IF u.ret # "RNP_SUCCESS"
    THEN <<Memset(uid), Destroy(uid), Memset(uid)>>
    ELSE <<Memset(uid)>>

\* process_pgp_subkey(src, subkey), r its result
process_pgp_subkey_log(s, r, subkey) ==
    IF ~is_subkey_pkt(stream_pkt_type(s))
    THEN <<Memset(subkey)>>
    ELSE IF r.ret # "RNP_SUCCESS"
    THEN <<Memset(subkey), Destroy(subkey), Memset(subkey)>>
    ELSE <<Memset(subkey)>>

\* the userid loop of process_pgp_key from the i-th userid of the k-th key
\* on: n userids are in the list at the end
RECURSIVE UseridsLog(_, _, _, _, _)
UseridsLog(s, k, i, fuel, log) ==
    LET Userid(u, l) ==
          IF u.ret # "RNP_SUCCESS"
          THEN [ret |-> u.ret, src |-> u.src, fuel |-> u.fuel, n |-> i,
                log |-> l]
          ELSE UseridsLog(u.src, k, i + 1, u.fuel, l)
        Appended(u) ==
          Userid(u, log \o process_pgp_userid_log(
                             s, u, ParsedObject("userid", k, i)))
        Loop(ptag) ==
          IF ptag = 0 \/ (ptag # PGP_PKT_USER_ID /\ ptag # PGP_PKT_USER_ATTR)
          THEN [ret |-> "RNP_SUCCESS", src |-> s, fuel |-> fuel,
                n |-> i - 1, log |-> log]
          ELSE IF ~CanAlloc(fuel)
          THEN [ret |-> "RNP_ERROR_OUT_OF_MEMORY", src |-> s, fuel |-> fuel,
                n |-> i - 1, log |-> log]
          ELSE Appended(process_pgp_userid(s, Spend(fuel)))
    IN  Loop(stream_pkt_type(s))

\* the subkey loop of process_pgp_key from the j-th subkey of the k-th key
RECURSIVE SubkeysLog(_, _, _, _, _)
SubkeysLog(s, k, j, fuel, log) ==
    LET Subkey(r, l) ==
          IF r.ret # "RNP_SUCCESS"
          THEN [ret |-> r.ret, src |-> r.src, fuel |-> r.fuel, n |-> j,
                log |-> l]
          ELSE SubkeysLog(r.src, k, j + 1, r.fuel, l)
        Appended(r) ==
          Subkey(r, log \o process_pgp_subkey_log(
                             s, r, ParsedObject("subkey", k, j)))
        Loop(ptag) ==
          IF ptag = 0 \/ ~is_subkey_pkt(ptag)
          THEN [ret |-> IF ptag >= 0 THEN "RNP_SUCCESS"
                        ELSE "RNP_ERROR_BAD_FORMAT",
                src |-> s, fuel |-> fuel, n |-> j - 1, log |-> log]
          ELSE IF ~CanAlloc(fuel)
          THEN [ret |-> "RNP_ERROR_OUT_OF_MEMORY", src |-> s, fuel |-> fuel,
                n |-> j - 1, log |-> log]
          ELSE Appended(process_pgp_subkey(s, Spend(fuel)))
    IN  Loop(stream_pkt_type(s))

\* process_pgp_key(src, key) on the k-th key of a sequence: the memset at
\* the start and, when it fails, transferable_key_destroy at finish, after
\* which the key is left as the destroy routine left it; userids and
\* subkeys are the lengths of the lists the key is left with
process_pgp_key_log(s, fuel, k) ==
    LET key == ParsedObject("key", k, 0)
        pkts == IF is_armored_source(s) THEN Head(s).pkts ELSE s
        Finish(res, userids, subkeys, log) ==
          IF res # "RNP_SUCCESS"
          THEN [ret |-> res, userids |-> 0, subkeys |-> 0,
                log |-> log \o transferable_key_destroy_log(k, userids,
                                                            subkeys)]
          ELSE [ret |-> res, userids |-> userids, subkeys |-> subkeys,
                log |-> log]
        Subkeys(u, r) == Finish(r.ret, u.n, r.n, r.log)
        Userids(u) ==
          IF u.ret # "RNP_SUCCESS" THEN Finish(u.ret, u.n, 0, u.log)
          ELSE Subkeys(u, SubkeysLog(u.src, k, 1, u.fuel, u.log))
        Signatures(g) ==
          IF g.ret # "RNP_SUCCESS" THEN Finish(g.ret, 0, 0, <<Memset(key)>>)
          ELSE Userids(UseridsLog(g.src, k, 1, g.fuel, <<Memset(key)>>))
        Parsed(p) ==
          IF p.ret # "RNP_SUCCESS" THEN Finish(p.ret, 0, 0, <<Memset(key)>>)
          ELSE Signatures(process_pgp_key_signatures(
                            process_pgp_key_trusts(Tail(pkts)), <<>>, fuel))
        Start(ptag) ==
          IF ptag <= 0 \/ ~is_primary_key_pkt(ptag)
          THEN Finish("RNP_ERROR_BAD_FORMAT", 0, 0, <<Memset(key)>>)
          ELSE Parsed(stream_parse_key(Head(pkts)))
    IN  Start(stream_pkt_type(pkts))

\* the loop of process_pgp_keys: keys has the list lengths of the keys in
\* the list, the key process_pgp_key failed on included
RECURSIVE KeySequenceLog(_, _, _, _)
KeySequenceLog(s, keys, fuel, log) ==
    LET Key(r, l) ==
          IF r.ret # "RNP_SUCCESS"
          THEN [ret |-> r.ret, src |-> r.src, fuel |-> r.fuel,
                keys |-> Append(keys, [userids |-> l.userids,
                                       subkeys |-> l.subkeys]),
                log |-> log \o l.log]
          ELSE KeySequenceLog(r.src,
                              Append(keys, [userids |-> l.userids,
                                            subkeys |-> l.subkeys]),
                              r.fuel, log \o l.log)
        Loop(ptag) ==
          IF ptag < 0 \/ ~is_primary_key_pkt(ptag)
          THEN [ret |-> "RNP_ERROR_BAD_FORMAT", src |-> s, fuel |-> fuel,
                keys |-> keys, log |-> log]
          ELSE IF ~CanAlloc(fuel)
          THEN [ret |-> "RNP_ERROR_OUT_OF_MEMORY", src |-> s, fuel |-> fuel,
                keys |-> keys, log |-> log]
          ELSE Key(process_pgp_key(s, Spend(fuel)),
                   process_pgp_key_log(s, Spend(fuel), Len(keys) + 1))
    IN  IF src_eof(s)
        THEN [ret |-> "RNP_SUCCESS", src |-> s, fuel |-> fuel,
              keys |-> keys, log |-> log]
        ELSE Loop(stream_pkt_type(s))

\* process_pgp_keys(src, keys): the passes over the armored blocks and
\* key_sequence_destroy at finish when the result is an error
RECURSIVE ProcessKeysLog(_, _, _, _)
ProcessKeysLog(s, keys, fuel, log) ==
    LET Finish(r) ==
          IF r.ret # "RNP_SUCCESS"
          THEN [ret |-> r.ret,
                log |-> r.log \o key_sequence_destroy_log(r.keys, 1)]
          ELSE [ret |-> r.ret, log |-> r.log]
        Pass(armored, orig, r) ==
          IF armored /\ r.ret = "RNP_SUCCESS" /\ ~src_eof(orig)
               /\ is_armored_source(orig)
          THEN ProcessKeysLog(orig, r.keys, r.fuel, r.log)
          ELSE Finish(r)
    IN  Pass(is_armored_source(s), Tail(s),
             KeySequenceLog(IF is_armored_source(s) THEN Head(s).pkts
                            ELSE s, keys, fuel, log))

process_pgp_keys_log(s, fuel) == ProcessKeysLog(s, <<>>, fuel, <<>>)

(***************************************************************************)
(* The transferable key writer.                                            *)
(***************************************************************************)
\* a writer that writes the first signature of a list only
write_pgp_signatures_first(sigs) ==
    IF sigs = <<>> THEN <<>> ELSE <<stream_write_signature(Head(sigs))>>

RECURSIVE write_pgp_signatures(_)
write_pgp_signatures(sigs) ==
    IF sigs = <<>> THEN <<>>
    ELSE <<stream_write_signature(Head(sigs))>>
           \o write_pgp_signatures(Tail(sigs))

RECURSIVE WriteUserids(_)
WriteUserids(uids) ==
    IF uids = <<>> THEN <<>>
    ELSE <<stream_write_userid(Head(uids).uid)>>
           \o write_pgp_signatures(Head(uids).signatures)
           \o WriteUserids(Tail(uids))

\* the packets of the subkeys; ok is false once a key packet is not written
RECURSIVE WriteSubkeys(_)
WriteSubkeys(skeys) ==
    IF skeys = <<>> THEN [ok |-> TRUE, val |-> <<>>]
    ELSE LET w == stream_write_key(Head(skeys).subkey)
             rest == WriteSubkeys(Tail(skeys))
         IN  IF ~w.ok THEN [ok |-> FALSE, val |-> <<>>]
             ELSE [ok |-> rest.ok,
                   val |-> <<w.val>>
                             \o write_pgp_signatures(Head(skeys).signatures)
                             \o rest.val]

\* the packets of the keys, as far as they are written
RECURSIVE WriteKeys(_)
WriteKeys(keys) ==
    IF keys = <<>> THEN [ok |-> TRUE, val |-> <<>>]
    ELSE LET key == Head(keys)
             w == stream_write_key(key.key)
             sk == WriteSubkeys(key.subkeys)
             rest == WriteKeys(Tail(keys))
         IN  IF ~w.ok THEN [ok |-> FALSE, val |-> <<>>]
             ELSE LET head == <<w.val>>
                                \o write_pgp_signatures(key.signatures)
                                \o WriteUserids(key.userids)
                                \o sk.val
                  IN  IF ~sk.ok THEN [ok |-> FALSE, val |-> head]
                      ELSE [ok |-> rest.ok, val |-> head \o rest.val]

\* the writer that takes the armor type from any key of the sequence
write_pgp_keys_any_secret(keys, armor) ==
    LET w == WriteKeys(keys)
        msgtype == IF \E i \in 1 .. Len(keys) : is_secret_key_pkt(keys[i].key.tag)
                   THEN "PGP_ARMORED_SECRET_KEY"
                   ELSE "PGP_ARMORED_PUBLIC_KEY"
    IN  [ret |-> IF w.ok THEN "RNP_SUCCESS" ELSE "RNP_ERROR_WRITE",
         dst |-> IF armor
                 THEN <<[armor |-> msgtype, pkts |-> w.val]>>
                 ELSE w.val]

write_pgp_keys(keys, armor) ==
    LET w == WriteKeys(keys)
        msgtype == IF keys # <<>> /\ is_secret_key_pkt(Head(keys).key.tag)
                   THEN "PGP_ARMORED_SECRET_KEY"
                   ELSE "PGP_ARMORED_PUBLIC_KEY"
    IN  [ret |-> IF w.ok THEN "RNP_SUCCESS" ELSE "RNP_ERROR_WRITE",
         dst |-> IF armor
                 THEN <<[armor |-> msgtype, pkts |-> w.val]>>
                 ELSE w.val]

(***************************************************************************)
(* The protection of secret key material.  A key packet is a record        *)
(*   [tag, version, alg, pub, material |-> [secret, mpis],                 *)
(*    sec_protection |-> [s2k |-> [usage, specifier, salt], symm_alg,      *)
(*                        cipher_mode, iv], sec_data]                      *)
(* in which mpis holds the secret MPIs of the algorithm (RSA: d, p, q, u;  *)
(* the others: x), an MPI is the sequence of its bytes, the empty sequence *)
(* when it is zeroed, and sec_data is the stored secret blob, the empty    *)
(* sequence when there is none.  env names the step of a call that fails   *)
(* for a reason outside the key ("none": no step does).                    *)
(***************************************************************************)
RECURSIVE SumBytes(_)
SumBytes(data) ==
    IF data = <<>> THEN 0 ELSE Head(data) + SumBytes(Tail(data))

\* the sum the code keeps in a uint16_t
sum16(data) == SumBytes(data) % 65536

write_uint16(v) == <<v \div 256, v % 256>>

read_uint16(data, pos) == data[pos] * 256 + data[pos + 1]

\* the hash of the secret key data: a digest of PGP_SHA1_HASH_SIZE bytes
\* that depends on every byte and on their order
RECURSIVE Digest(_, _)
Digest(h, data) ==
    IF data = <<>> THEN h
    ELSE Digest((3 * h + Head(data) + 1) % 256, Tail(data))

pgp_hash_sha1(data) ==
    [i \in 1 .. PGP_SHA1_HASH_SIZE |-> (Digest(7, data) + i) % 256]

\* an MPI is written as its length in bits and its bytes
mpi_bits(mpi) ==
    IF mpi = <<>> THEN 0
    ELSE 8 * (Len(mpi) - 1)
           + (CHOOSE n \in 0 .. 8 : mpi[1] < 2 ^ n /\ (n = 0 \/ mpi[1] >= 2 ^ (n - 1)))

add_packet_body_mpi(body, mpi) == body \o write_uint16(mpi_bits(mpi)) \o mpi

\* the MPI read at pos: the octets the bit length calls for, whose first
\* byte has no more bits than the length tells
get_packet_body_mpi(body, pos) ==
    LET Read(n) ==
          IF pos + 1 + n > Len(body) THEN [ok |-> FALSE]
          ELSE IF mpi_bits(SubSeq(body, pos + 2, pos + 1 + n))
                    # read_uint16(body, pos)
          THEN [ok |-> FALSE]
          ELSE [ok |-> TRUE, mpi |-> SubSeq(body, pos + 2, pos + 1 + n),
                pos |-> pos + 2 + n]
    IN  IF pos + 1 > Len(body) THEN [ok |-> FALSE]
        ELSE Read((read_uint16(body, pos) + 7) \div 8)

RsaAlgs == {"PGP_PKA_RSA", "PGP_PKA_RSA_ENCRYPT_ONLY", "PGP_PKA_RSA_SIGN_ONLY"}

is_rsa_key_alg(alg) == alg \in RsaAlgs

\* the number of secret MPIs of an algorithm, 0 for one the switch over
\* key->alg does not know
SecretMpis(alg) ==
    IF alg \in RsaAlgs THEN 4
    ELSE IF alg \in {"PGP_PKA_DSA", "PGP_PKA_EDDSA", "PGP_PKA_ECDSA",
                     "PGP_PKA_SM2", "PGP_PKA_ECDH", "PGP_PKA_ELGAMAL"}
    THEN 1
    ELSE 0

\* the cipher: the key and the block size of an algorithm in bytes, 0 for
\* one that is not supported
pgp_key_size(symm_alg) ==
    IF symm_alg \in {"PGP_SA_AES_128", "PGP_SA_AES_256"} THEN 1 ELSE 0

pgp_block_size(symm_alg) ==
    IF symm_alg \in {"PGP_SA_AES_128", "PGP_SA_AES_256"} THEN 2 ELSE 0

\* the key derived from a password; the salt counts unless the specifier
\* is simple
pgp_s2k_derive_key(s2k, password) ==
    (7 * password
       + (IF s2k.specifier = "PGP_S2KS_SIMPLE" THEN 0 ELSE 3 * s2k.salt)) % 256

\* CFB: the j-th key stream byte of a block comes from the key and the
\* register, which holds the preceding block of cipher text
KeyStream(crypt, j) ==
    (crypt.key + 5 * SumBytes(crypt.reg) + crypt.reg[1] + j) % 256

pgp_cipher_cfb_start(symm_alg, keybuf, iv) ==
    [key |-> keybuf, reg |-> iv, fill |-> <<>>]

\* the register after one more byte of cipher text
Shift(crypt, c) ==
    IF Len(crypt.fill) + 1 = Len(crypt.reg)
    THEN [crypt EXCEPT !.reg = Append(crypt.fill, c), !.fill = <<>>]
    ELSE [crypt EXCEPT !.fill = Append(@, c)]

RECURSIVE pgp_cipher_cfb_encrypt(_, _, _)
pgp_cipher_cfb_encrypt(crypt, data, out) ==
    LET Next(c) == pgp_cipher_cfb_encrypt(Shift(crypt, c), Tail(data),
                                          Append(out, c))
    IN  IF data = <<>> THEN [crypt |-> crypt, out |-> out]
        ELSE Next((Head(data) + KeyStream(crypt, Len(crypt.fill) + 1)) % 256)

RECURSIVE pgp_cipher_cfb_decrypt(_, _, _)
pgp_cipher_cfb_decrypt(crypt, data, out) ==
    IF data = <<>> THEN [crypt |-> crypt, out |-> out]
    ELSE pgp_cipher_cfb_decrypt(
           Shift(crypt, Head(data)), Tail(data),
           Append(out, (Head(data) + 256
                          - KeyStream(crypt, Len(crypt.fill) + 1)) % 256))

pgp_cipher_cfb_resync(crypt, buf) == [crypt EXCEPT !.reg = buf, !.fill = <<>>]

\* the secret MPIs of a key whose secret fields are zeroed
ZeroMpis(alg) == [i \in 1 .. SecretMpis(alg) |-> <<>>]

forget_secret_key_fields(material, alg) ==
    IF ~material.secret THEN material
    ELSE [secret |-> FALSE,
          mpis |-> IF SecretMpis(alg) = 0
                        /\ alg # "PGP_PKA_ELGAMAL_ENCRYPT_OR_SIGN"
                   THEN material.mpis
                   ELSE [i \in 1 .. Len(material.mpis) |-> <<>>]]

\* the secret MPIs from the k-th on are read from body at pos; the ones
\* read before one fails stay in mpis
RECURSIVE ParseMpis(_, _, _, _)
ParseMpis(body, pos, k, mpis) ==
    LET Got(m) ==
          IF ~m.ok THEN [ok |-> FALSE, mpis |-> mpis, pos |-> pos]
          ELSE ParseMpis(body, m.pos, k + 1, [mpis EXCEPT ![k] = m.mpi])
    IN  IF k > Len(mpis) THEN [ok |-> TRUE, mpis |-> mpis, pos |-> pos]
        ELSE Got(get_packet_body_mpi(body, pos))

\* parse_secret_key_mpis without the check of the trailer
parse_secret_key_mpis_unchecked(key, mpis, env) ==
    LET len == IF key.sec_protection.s2k.usage
                     = "PGP_S2KU_ENCRYPTED_AND_HASHED"
               THEN Len(mpis) - PGP_SHA1_HASH_SIZE ELSE Len(mpis) - 2
        Parsed(p) ==
          IF ~p.ok \/ p.pos <= len
          THEN [ret |-> "RNP_ERROR_BAD_FORMAT",
                key |-> [key EXCEPT !.material.mpis = p.mpis]]
          ELSE [ret |-> "RNP_SUCCESS",
                key |-> [key EXCEPT !.material.mpis = p.mpis,
                                    !.material.secret = TRUE]]
    IN  IF len < 0 \/ SecretMpis(key.alg) = 0
        THEN [ret |-> "RNP_ERROR_BAD_PARAMETERS", key |-> key]
        ELSE Parsed(ParseMpis(SubSeq(mpis, 1, len), 1, 1, key.material.mpis))

\* a blob shorter than its trailer makes len wrap around: the result
\* "UNDEFINED" stands for what the reads outside the blob lead to
parse_secret_key_mpis(key, mpis, env) ==
    LET usage == key.sec_protection.s2k.usage
        Parsed(len, p) ==
          IF ~p.ok \/ p.pos <= len
          THEN [ret |-> "RNP_ERROR_BAD_FORMAT",
                key |-> [key EXCEPT !.material.mpis = p.mpis]]
          ELSE [ret |-> "RNP_SUCCESS",
                key |-> [key EXCEPT !.material.mpis = p.mpis,
                                    !.material.secret = TRUE]]
        Checked(len, match) ==
          IF ~match THEN [ret |-> "RNP_ERROR_DECRYPT_FAILED", key |-> key]
          ELSE IF SecretMpis(key.alg) = 0
          THEN [ret |-> "RNP_ERROR_BAD_PARAMETERS", key |-> key]
          ELSE Parsed(len, ParseMpis(SubSeq(mpis, 1, len), 1, 1,
                                     key.material.mpis))
    IN  IF mpis = <<>>
        THEN [ret |-> "RNP_ERROR_NULL_POINTER", key |-> key]
        ELSE IF usage \in {"PGP_S2KU_NONE", "PGP_S2KU_ENCRYPTED"}
        THEN IF Len(mpis) < 2 THEN [ret |-> "UNDEFINED", key |-> key]
             ELSE Checked(Len(mpis) - 2,
                          sum16(SubSeq(mpis, 1, Len(mpis) - 2))
                            = read_uint16(mpis, Len(mpis) - 1))
        ELSE IF usage = "PGP_S2KU_ENCRYPTED_AND_HASHED"
        THEN IF env = "hash"
             THEN [ret |-> "RNP_ERROR_BAD_STATE", key |-> key]
             ELSE IF Len(mpis) < PGP_SHA1_HASH_SIZE
             THEN [ret |-> "UNDEFINED", key |-> key]
             ELSE Checked(Len(mpis) - PGP_SHA1_HASH_SIZE,
                          pgp_hash_sha1(SubSeq(mpis, 1, Len(mpis)
                                                  - PGP_SHA1_HASH_SIZE))
                            = SubSeq(mpis, Len(mpis) - PGP_SHA1_HASH_SIZE + 1,
                                     Len(mpis)))
        ELSE [ret |-> "RNP_ERROR_BAD_PARAMETERS", key |-> key]

\* the bytes at the offsets pos .. pos + n - 1 of a buffer
Offsets(pos, n) == pos .. pos + n - 1

\* the four RSA MPIs from the idx-th on, each with its header in the clear;
\* pos bytes of enc are consumed, dec.data holds what was written to dec,
\* dec.reads the offsets of enc that were read and dec.writes the offsets
\* of dec that were written
RECURSIVE DecryptMpisV3(_, _, _, _, _)
DecryptMpisV3(crypt, enc, pos, idx, dec) ==
    LET Return(res, d) ==
          [ret |-> res, dec |-> d.data, reads |-> d.reads,
           writes |-> d.writes]
        Copied(d) ==
          [data |-> d.data \o SubSeq(enc, pos + 1, pos + 2),
           reads |-> d.reads \cup Offsets(pos, 2),
           writes |-> d.writes \cup Offsets(pos, 2)]
        Decrypted(mpilen, blsize, c, d) ==
          IF mpilen < blsize THEN Return("RNP_ERROR_BAD_FORMAT", d)
          ELSE DecryptMpisV3(
                 pgp_cipher_cfb_resync(
                   c, SubSeq(enc, pos + 3 + mpilen - blsize,
                             pos + 2 + mpilen)),
                 enc, pos + 2 + mpilen, idx + 1,
                 [d EXCEPT !.reads = @ \cup Offsets(pos + 2 + mpilen - blsize,
                                                    blsize)])
        Decrypt(mpilen, blsize, r, d) ==
          Decrypted(mpilen, blsize, r.crypt,
                    [data |-> d.data \o r.out,
                     reads |-> d.reads \cup Offsets(pos + 2, mpilen),
                     writes |-> d.writes \cup Offsets(pos + 2, mpilen)])
        Mpi(mpilen, blsize, d) ==
          IF pos + 2 + mpilen > Len(enc)
          THEN Return("RNP_ERROR_BAD_FORMAT", d)
          ELSE Decrypt(mpilen, blsize,
                       pgp_cipher_cfb_decrypt(
                         crypt, SubSeq(enc, pos + 3, pos + 2 + mpilen), <<>>),
                       d)
    IN  IF idx > 4
        THEN IF pos + 2 # Len(enc) THEN Return("RNP_ERROR_BAD_FORMAT", dec)
             ELSE Return("RNP_SUCCESS", Copied(dec))
        ELSE IF pos + 2 > Len(enc) THEN Return("RNP_ERROR_BAD_FORMAT", dec)
        ELSE Mpi((read_uint16(enc, pos + 1) + 7) \div 8, Len(crypt.reg),
                 [Copied(dec) EXCEPT
                    !.reads = dec.reads \cup Offsets(pos, 2)])

\* the decryption that accepts what it has walked through
decrypt_secret_key_v3_lenient(crypt, enc) ==
    [DecryptMpisV3(crypt, enc, 0, 1,
                   [data |-> <<>>, reads |-> {}, writes |-> {}])
       EXCEPT !.ret = "RNP_SUCCESS"]

decrypt_secret_key_v3(crypt, enc) ==
    IF Len(crypt.reg) = 0
    THEN [ret |-> "RNP_ERROR_BAD_STATE", dec |-> <<>>, reads |-> {},
          writes |-> {}]
    ELSE DecryptMpisV3(crypt, enc, 0, 1,
                       [data |-> <<>>, reads |-> {}, writes |-> {}])

\* password 0 stands for the null pointer; dec holds the bytes that were
\* given to parse_secret_key_mpis, none when it was not called.  malloc(0)
\* is one of the allocations env = "alloc" makes fail; when it does not
\* fail, the empty blob is shorter than its trailer.  keybuf tells what the
\* derived-key buffer holds at the return ("unused": the derivation was not
\* started, "derived": what the derivation wrote, "zeroed") and buf what
\* the working buffer decdata held when it was freed ("none": there was no
\* such buffer)
decrypt_secret_key(key, password, env) ==
    LET prot == key.sec_protection
        Return(res) == [ret |-> res, key |-> key, dec |-> <<>>,
                        keybuf |-> "unused", buf |-> "none"]
        Finish(res, buf) == [ret |-> res, key |-> key, dec |-> <<>>,
                             keybuf |-> "zeroed", buf |-> buf]
        Parsed(r, dec, keybuf, buf) ==
          [ret |-> r.ret, key |-> r.key, dec |-> dec, keybuf |-> keybuf,
           buf |-> buf]
        Decrypted(d) ==
          IF d.ret # "RNP_SUCCESS" THEN Finish(d.ret, "zeroed")
          ELSE IF d.dec = <<>> THEN Finish("UNDEFINED", "zeroed")
          ELSE Parsed(parse_secret_key_mpis(key, d.dec, env), d.dec,
                      "zeroed", "zeroed")
        Started(crypt) ==
          IF key.version = PGP_V3
          THEN IF ~is_rsa_key_alg(key.alg)
               THEN Finish("RNP_ERROR_BAD_PARAMETERS", "zeroed")
               ELSE Decrypted(decrypt_secret_key_v3(crypt, key.sec_data))
          ELSE IF key.version = PGP_V4
          THEN Decrypted([ret |-> "RNP_SUCCESS",
                          dec |-> pgp_cipher_cfb_decrypt(crypt, key.sec_data,
                                                         <<>>).out])
          ELSE Finish("RNP_ERROR_BAD_PARAMETERS", "zeroed")
    IN  IF ~is_secret_key_pkt(key.tag)
        THEN Return("RNP_ERROR_BAD_PARAMETERS")
        ELSE IF prot.s2k.usage = "PGP_S2KU_NONE"
        THEN Parsed(parse_secret_key_mpis(key, key.sec_data, env),
                    key.sec_data, "unused", "none")
        ELSE IF password = 0
        THEN Return("RNP_ERROR_NULL_POINTER")
        ELSE IF prot.cipher_mode # "PGP_CIPHER_MODE_CFB"
        THEN Return("RNP_ERROR_BAD_PARAMETERS")
        ELSE IF pgp_key_size(prot.symm_alg) = 0
        THEN Return("RNP_ERROR_BAD_PARAMETERS")
        ELSE IF env = "derive"
        THEN [Return("RNP_ERROR_BAD_PARAMETERS") EXCEPT !.keybuf = "derived"]
        ELSE IF env = "alloc"
        THEN Finish("RNP_ERROR_OUT_OF_MEMORY", "none")
        ELSE IF env = "cipher"
        THEN Finish("RNP_ERROR_DECRYPT_FAILED", "zeroed")
        ELSE Started(pgp_cipher_cfb_start(
                       prot.symm_alg,
                       pgp_s2k_derive_key(prot.s2k, password), prot.iv))

RECURSIVE WriteMpis(_, _)
WriteMpis(body, mpis) ==
    IF mpis = <<>> THEN body
    ELSE WriteMpis(add_packet_body_mpi(body, Head(mpis)), Tail(mpis))

\* write_secret_key_mpis with the sum16 trailer for every usage
write_secret_key_mpis_sum16(key, env) ==
    LET Trailer(body) == [ok |-> TRUE, body |-> body \o write_uint16(sum16(body))]
    IN  IF SecretMpis(key.alg) = 0 THEN [ok |-> FALSE]
        ELSE Trailer(WriteMpis(<<>>, key.material.mpis))

write_secret_key_mpis(key, env) ==
    LET Trailer(body) ==
          IF key.sec_protection.s2k.usage # "PGP_S2KU_ENCRYPTED_AND_HASHED"
          THEN [ok |-> TRUE, body |-> body \o write_uint16(sum16(body))]
          ELSE IF env = "hash" THEN [ok |-> FALSE]
          ELSE [ok |-> TRUE, body |-> body \o pgp_hash_sha1(body)]
    IN  IF SecretMpis(key.alg) = 0 THEN [ok |-> FALSE]
        ELSE Trailer(WriteMpis(<<>>, key.material.mpis))

\* rng holds the bytes the random number generator gives for the iv and
\* the salt.  keybuf is as for decrypt_secret_key; buf tells what became of
\* the packet body with the cleartext MPIs: "none" (there was none),
\* "zeroed" (zeroed and freed) or "stored" (it is the key's sec_data)
encrypt_secret_key(key, password, rng, env) ==
    LET prot == key.sec_protection
        Return(res) == [ret |-> res, key |-> key, keybuf |-> "unused",
                        buf |-> "none"]
        Error(res, k) == [ret |-> res, key |-> k, keybuf |-> "zeroed",
                          buf |-> "zeroed"]
        Encrypted(body, k) ==
          [ret |-> "RNP_SUCCESS",
           key |-> [k EXCEPT
                      !.sec_data =
                         pgp_cipher_cfb_encrypt(
                           pgp_cipher_cfb_start(
                             k.sec_protection.symm_alg,
                             pgp_s2k_derive_key(k.sec_protection.s2k,
                                                password),
                             k.sec_protection.iv),
                           body, <<>>).out,
                      !.material = forget_secret_key_fields(@, k.alg)],
           keybuf |-> "derived", buf |-> "stored"]
        Salted(body, k) ==
          IF env = "derive" \/ k.version < PGP_V4
          THEN Error("RNP_ERROR_BAD_PARAMETERS", k)
          ELSE IF env = "cipher"
          THEN Error("RNP_ERROR_DECRYPT_FAILED", k)
          ELSE Encrypted(body, k)
        Seeded(body, k) ==
          IF k.sec_protection.s2k.specifier = "PGP_S2KS_SIMPLE"
          THEN Salted(body, k)
          ELSE IF env = "rng_salt" THEN Error("RNP_ERROR_RNG", k)
          ELSE Salted(body, [k EXCEPT !.sec_protection.s2k.salt = rng.salt])
        Built(w) ==
          IF ~w.ok THEN Error("RNP_ERROR_OUT_OF_MEMORY", key)
          ELSE IF prot.s2k.usage = "PGP_S2KU_NONE"
          THEN [ret |-> "RNP_SUCCESS",
                key |-> [key EXCEPT !.sec_data = w.body],
                keybuf |-> "unused", buf |-> "stored"]
          ELSE IF pgp_key_size(prot.symm_alg) = 0
                    \/ pgp_block_size(prot.symm_alg) = 0
          THEN Error("RNP_ERROR_BAD_PARAMETERS", key)
          ELSE IF env = "rng_iv" THEN Error("RNP_ERROR_RNG", key)
          ELSE Seeded(w.body, [key EXCEPT !.sec_protection.iv = rng.iv])
    IN  IF ~is_secret_key_pkt(key.tag) \/ ~key.material.secret
        THEN Return("RNP_ERROR_BAD_PARAMETERS")
        ELSE IF prot.s2k.usage # "PGP_S2KU_NONE"
                  /\ prot.cipher_mode # "PGP_CIPHER_MODE_CFB"
        THEN Return("RNP_ERROR_BAD_PARAMETERS")
        ELSE IF env = "alloc"
        THEN Return("RNP_ERROR_OUT_OF_MEMORY")
        ELSE Built(write_secret_key_mpis(key, env))

(***************************************************************************)
(* The validation of keys.  A key of the keyring is a record               *)
(*   [subkey, secret, grip, primary_grip, fp, keyid, uids, subsigs,        *)
(*    valid, validated]                                                    *)
(* with uids the number of its userids, and a signature of subsigs is      *)
(*   [type, keyfp, keyid, uid, valid, expired]                             *)
(* with keyfp and keyid the issuer fingerprint and key id (0: the          *)
(* signature has none, -1: it cannot be read), uid the index of the userid *)
(* it follows, and valid and expired what the signature check reports for  *)
(* it.                                                                     *)
(***************************************************************************)
pgp_sig_is_certification(sig) ==
    sig.type \in {"PGP_CERT_CASUAL", "PGP_CERT_GENERIC", "PGP_CERT_PERSONA",
                  "PGP_CERT_POSITIVE"}

pgp_sig_is_self_signature(key, sig) ==
    IF key.subkey \/ ~pgp_sig_is_certification(sig) THEN FALSE
    ELSE IF sig.keyfp > 0 THEN sig.keyfp = key.fp
    ELSE IF sig.keyid <= 0 THEN FALSE
    ELSE sig.keyid = key.keyid

pgp_sig_is_key_revocation(key, sig) ==
    ~key.subkey /\ sig.type = "PGP_SIG_REV_KEY"

pgp_sig_is_subkey_binding(key, sig) ==
    key.subkey /\ sig.type = "PGP_SIG_SUBKEY"

pgp_sig_is_subkey_revocation(key, sig) ==
    key.subkey /\ sig.type = "PGP_SIG_REV_SUBKEY"

\* the loop of pgp_key_validate_primary from the i-th signature on: the
\* value valid ends with
RECURSIVE ValidatePrimarySigs(_, _, _)
ValidatePrimarySigs(key, i, has_cert) ==
    LET Sig(sig) ==
          IF pgp_sig_is_self_signature(key, sig) /\ ~has_cert
          THEN ValidatePrimarySigs(
                 key, i + 1,
                 IF sig.uid \in 1 .. key.uids
                 THEN sig.valid /\ ~sig.expired ELSE has_cert)
          ELSE IF pgp_sig_is_key_revocation(key, sig) /\ sig.valid
          THEN FALSE
          ELSE ValidatePrimarySigs(key, i + 1, has_cert)
    IN  IF i > Len(key.subsigs) THEN has_cert \/ key.secret
        ELSE Sig(key.subsigs[i])

\* pgp_key_validate_primary looking at the first self-signature only
pgp_key_validate_primary_first(key) ==
    LET selfsigs == {i \in 1 .. Len(key.subsigs) :
                       pgp_sig_is_self_signature(key, key.subsigs[i])}
        first == CHOOSE i \in selfsigs : \A j \in selfsigs : i <= j
        revoked == \E i \in 1 .. Len(key.subsigs) :
                      /\ pgp_sig_is_key_revocation(key, key.subsigs[i])
                      /\ key.subsigs[i].valid
        has_cert == /\ selfsigs # {}
                    /\ key.subsigs[first].uid \in 1 .. key.uids
                    /\ key.subsigs[first].valid
                    /\ ~key.subsigs[first].expired
    IN  [key EXCEPT !.valid = ~revoked /\ (has_cert \/ key.secret)]

\* pgp_key_validate_primary keeping the valid flag of a revoked key
pgp_key_validate_primary_carry(key) ==
    LET v == ValidatePrimarySigs(key, 1, FALSE)
        revoked == \E i \in 1 .. Len(key.subsigs) :
                      /\ pgp_sig_is_key_revocation(key, key.subsigs[i])
                      /\ key.subsigs[i].valid
    IN  [key EXCEPT !.valid = IF revoked THEN key.valid ELSE v]

pgp_key_validate_primary(key) ==
    [key EXCEPT !.valid = ValidatePrimarySigs(key, 1, FALSE)]

\* the loop of pgp_key_validate_subkey from the i-th signature on
RECURSIVE ValidateSubkeySigs(_, _, _, _)
ValidateSubkeySigs(subkey, key, i, has_binding) ==
    LET Sig(sig) ==
          IF pgp_sig_is_subkey_binding(subkey, sig) /\ ~has_binding
          THEN ValidateSubkeySigs(subkey, key, i + 1,
                                  sig.valid /\ ~sig.expired)
          ELSE IF pgp_sig_is_subkey_revocation(subkey, sig) /\ sig.valid
          THEN FALSE
          ELSE ValidateSubkeySigs(subkey, key, i + 1, has_binding)
    IN  IF i > Len(subkey.subsigs)
        THEN has_binding \/ (subkey.secret /\ key.secret)
        ELSE Sig(subkey.subsigs[i])

\* pgp_key_validate_subkey without the test of the primary key
pgp_key_validate_subkey_alone(subkey, key) ==
    [subkey EXCEPT !.valid = ValidateSubkeySigs(subkey, key, 1, FALSE)]

pgp_key_validate_subkey(subkey, key) ==
    [subkey EXCEPT !.valid = IF ~key.valid THEN FALSE
                             ELSE ValidateSubkeySigs(subkey, key, 1, FALSE)]

\* the index of the first key of the keyring with the grip, 0 if none
rnp_key_store_get_key_by_grip(keyring, grip) ==
    IF \E i \in 1 .. Len(keyring) : keyring[i].grip = grip
    THEN CHOOSE i \in 1 .. Len(keyring) :
           /\ keyring[i].grip = grip
           /\ \A j \in 1 .. i - 1 : keyring[j].grip # grip
    ELSE 0

\* pgp_key_validate on the k-th key of the keyring
pgp_key_validate(keyring, k) ==
    LET Subkey(primary) ==
          IF primary = 0
          THEN [ret |-> "RNP_ERROR_BAD_PARAMETERS",
                keyring |-> [keyring EXCEPT ![k].valid = FALSE]]
          ELSE [ret |-> "RNP_SUCCESS",
                keyring |->
                  [keyring EXCEPT
                     ![k] = [pgp_key_validate_subkey(keyring[k],
                                                     keyring[primary])
                               EXCEPT !.validated = TRUE]]]
    IN  IF ~keyring[k].subkey
        THEN [ret |-> "RNP_SUCCESS",
              keyring |->
                [keyring EXCEPT
                   ![k] = [pgp_key_validate_primary(keyring[k])
                             EXCEPT !.validated = TRUE]]]
        ELSE Subkey(rnp_key_store_get_key_by_grip(keyring,
                                                  keyring[k].primary_grip))

(***************************************************************************)
(* The keys the parser produces: the results of process_pgp_key on the key *)
(* streams of at most n packets after the primary key packet.              *)
(***************************************************************************)
SigPkts == {stream_write_signature(i) : i \in 1 .. NSigs}

UidPkts == {[tag |-> PGP_PKT_USER_ID, uid |-> i] : i \in 1 .. NUids}

SubkeyPkts ==
    {[tag |-> PGP_PKT_PUBLIC_SUBKEY, pub |-> i, sec |-> 0] : i \in 1 .. NKeys}
      \cup {[tag |-> PGP_PKT_SECRET_SUBKEY, pub |-> i, sec |-> 1] :
              i \in 1 .. NKeys}

PrimaryPkts ==
    {[tag |-> PGP_PKT_PUBLIC_KEY, pub |-> i, sec |-> 0] : i \in 1 .. NKeys}
      \cup {[tag |-> PGP_PKT_SECRET_KEY, pub |-> i, sec |-> 1] :
              i \in 1 .. NKeys}

BodyPkts == SigPkts \cup UidPkts \cup SubkeyPkts

\* the keys parsed from a primary key packet followed by exactly n packets
ParsedKeys(n) ==
    LET parses == {process_pgp_key(<<p>> \o b, -1) :
                     p \in PrimaryPkts, b \in [1 .. n -> BodyPkts]}
    IN  {r.val : r \in {x \in parses : x.ret = "RNP_SUCCESS"}}

\* the parsed keys, by the number of packets after the primary key packet
KeysBySize == {[n |-> n, keys |-> ParsedKeys(n)] : n \in 0 .. MaxPkts}

(***************************************************************************)
(* The merge specification: dst and src are two keys the parser produced,  *)
(* of at most MaxPkts packets together, and one merge operation is applied.*)
(***************************************************************************)
MergeIdle ==
    /\ dst = <<>> /\ src = <<>> /\ dst0 = <<>> /\ src0 = <<>>
    /\ ret = "none" /\ op = "idle"

StreamIdle ==
    /\ wkeys = <<>> /\ warmor = FALSE /\ stream = <<>> /\ wret = "none"
    /\ parsed = <<>> /\ pret = "none" /\ sop = "idle" /\ pfuel = 0
    /\ plog = <<>>

SecretIdle ==
    /\ seckey = <<>> /\ seckey0 = <<>> /\ kbefore = <<>> /\ kret = "none"
    /\ kop = "idle" /\ kpw = 0 /\ kenv = "none" /\ kdec = <<>>
    /\ encpw = 0 /\ encret = "none" /\ intact = TRUE
    /\ kkeybuf = "unused" /\ kbuf = "none"

ValidateIdle ==
    /\ ring = <<>> /\ ring0 = <<>> /\ vkey = 0 /\ vret = "none"
    /\ vop = 0 /\ vlog = <<>>

KeyIdle ==
    /\ pgpkey = <<>> /\ pgpkey0 = <<>> /\ pgpbefore = <<>>
    /\ keyop = "idle" /\ keyres = FALSE /\ pwbuf = <<>> /\ asked = FALSE
    /\ nops = 0

SignIdle ==
    /\ sgkey = <<>> /\ sgtarget = <<>> /\ sgbefore = <<>> /\ sgres = <<>>
    /\ sgop = "idle" /\ sgargs = <<>> /\ nsigns = 0

StoreIdle ==
    /\ kstore = <<>> /\ sdst = <<>> /\ sres = FALSE /\ tkey = <<>>
    /\ rkey = <<>> /\ rres = FALSE /\ stop = "idle"
    /\ kstore0 = <<>> /\ ssrc = <<>> /\ sret = "none" /\ tfrom = <<>>

MergeInit ==
    /\ StreamIdle /\ SecretIdle /\ ValidateIdle /\ KeyIdle
    /\ SignIdle /\ StoreIdle
    /\ \E a \in KeysBySize, b \in KeysBySize :
          /\ a.n + b.n <= MaxPkts
          /\ dst \in a.keys
          /\ src \in b.keys
    /\ dst0 = dst
    /\ src0 = src
    /\ ret = "none"
    /\ op = "init"

\* transferable_key_merge(dst, src)
KeyMerge ==
    /\ op = "init"
    /\ \E fuel \in Fuels :
         \E r \in {transferable_key_merge(dst, src, fuel)} :
            /\ dst' = r.val
            /\ ret' = r.ret
    /\ dst0' = dst
    /\ src0' = src
    /\ src' = src
    /\ op' = "transferable_key_merge"
    /\ UNCHANGED mergeFrame

\* src is merged into the result of a successful merge once more
KeyMergeAgain ==
    /\ op = "transferable_key_merge"
    /\ ret = "RNP_SUCCESS"
    /\ \E fuel \in Fuels :
         \E r \in {transferable_key_merge(dst, src, fuel)} :
            /\ dst' = r.val
            /\ ret' = r.ret
    /\ dst0' = dst
    /\ src0' = src
    /\ src' = src
    /\ op' = "merge_again"
    /\ UNCHANGED mergeFrame

\* transferable_key_merge(dst, copy of dst)
KeyMergeSelf ==
    /\ op = "init"
    /\ \E fuel \in Fuels :
         \E r \in {transferable_key_merge(dst, dst, fuel)} :
            /\ dst' = r.val
            /\ ret' = r.ret
    /\ dst0' = dst
    /\ src0' = dst
    /\ src' = dst
    /\ op' = "merge_self"
    /\ UNCHANGED mergeFrame

\* transferable_subkey_merge on a subkey of dst and a subkey of src
SubkeyMerge ==
    /\ op = "init"
    /\ \E i \in 1 .. Len(dst.subkeys), j \in 1 .. Len(src.subkeys),
          fuel \in Fuels :
         \E r \in {transferable_subkey_merge(dst.subkeys[i], src.subkeys[j],
                                              fuel)} :
            /\ dst' = r.val
            /\ ret' = r.ret
            /\ dst0' = dst.subkeys[i]
            /\ src0' = src.subkeys[j]
            /\ src' = src.subkeys[j]
    /\ op' = "transferable_subkey_merge"
    /\ UNCHANGED mergeFrame

\* transferable_userid_merge on a userid of dst and a userid of src
UseridMerge ==
    /\ op = "init"
    /\ \E i \in 1 .. Len(dst.userids), j \in 1 .. Len(src.userids),
          fuel \in Fuels :
         \E r \in {transferable_userid_merge(dst.userids[i], src.userids[j],
                                              fuel)} :
            /\ dst' = r.val
            /\ ret' = r.ret
            /\ dst0' = dst.userids[i]
            /\ src0' = src.userids[j]
            /\ src' = src.userids[j]
    /\ op' = "transferable_userid_merge"
    /\ UNCHANGED mergeFrame

\* merge_signatures on the direct-key signatures of dst and src
SignaturesMerge ==
    /\ op = "init"
    /\ \E fuel \in Fuels :
         \E r \in {merge_signatures(dst.signatures, src.signatures, fuel)} :
            /\ dst' = r.val
            /\ ret' = r.ret
    /\ dst0' = dst.signatures
    /\ src0' = src.signatures
    /\ src' = src.signatures
    /\ op' = "merge_signatures"
    /\ UNCHANGED mergeFrame

MergeNext ==
    \/ KeyMerge
    \/ KeyMergeAgain
    \/ KeyMergeSelf
    \/ SubkeyMerge
    \/ UseridMerge
    \/ SignaturesMerge

SpecMerge == MergeInit /\ [][MergeNext]_vars

(***************************************************************************)
(* The copy specification: src is a key the parser produced; it is copied, *)
(* and a public-only copy is copied public-only once more.                 *)
(***************************************************************************)
CopyInit ==
    /\ StreamIdle /\ SecretIdle /\ ValidateIdle /\ KeyIdle
    /\ SignIdle /\ StoreIdle
    /\ \E a \in KeysBySize : src \in a.keys
    /\ dst = DestroyedKey
    /\ dst0 = dst
    /\ src0 = src
    /\ ret = "none"
    /\ op = "init"

\* transferable_key_copy(dst, src, pubonly)
KeyCopy ==
    /\ op = "init"
    /\ \E pubonly \in BOOLEAN, fuel \in Fuels :
         \E r \in {transferable_key_copy(src, pubonly, fuel)} :
            /\ dst' = r.val
            /\ ret' = IF r.ok THEN "true" ELSE "false"
            /\ op' = IF pubonly THEN "transferable_key_copy_pubonly"
                     ELSE "transferable_key_copy"
    /\ dst0' = dst
    /\ src0' = src
    /\ src' = src
    /\ UNCHANGED mergeFrame

\* transferable_key_copy(dst, src, true) on a public-only copy
KeyCopyAgain ==
    /\ op = "transferable_key_copy_pubonly"
    /\ ret = "true"
    /\ \E fuel \in Fuels :
         \E r \in {transferable_key_copy(dst, TRUE, fuel)} :
            /\ dst' = r.val
            /\ ret' = IF r.ok THEN "true" ELSE "false"
    /\ dst0' = dst
    /\ src0' = dst
    /\ src' = dst
    /\ op' = "copy_pubonly_again"
    /\ UNCHANGED mergeFrame

CopyNext ==
    \/ KeyCopy
    \/ KeyCopyAgain

SpecCopy == CopyInit /\ [][CopyNext]_vars

(***************************************************************************)
(* The stream specification: a well-formed sequence of transferable keys   *)
(* is written, armored or not, and what was written is parsed.  The keys   *)
(* are built packet by packet, the way the key generation and the key      *)
(* store build them.                                                       *)
(***************************************************************************)
UidAndAttrPkts ==
    {[tag |-> g, uid |-> i] : g \in {PGP_PKT_USER_ID, PGP_PKT_USER_ATTR},
                              i \in 1 .. NUids}

\* the key with one more packet: a signature goes to the last subkey, else
\* to the last userid, else to the key itself
AddPacket(key, pkt) ==
    IF pkt.tag = PGP_PKT_SIGNATURE
    THEN IF key.subkeys # <<>>
         THEN [key EXCEPT !.subkeys[Len(key.subkeys)].signatures =
                            Append(@, pkt.sig)]
         ELSE IF key.userids # <<>>
         THEN [key EXCEPT !.userids[Len(key.userids)].signatures =
                            Append(@, pkt.sig)]
         ELSE [key EXCEPT !.signatures = Append(@, pkt.sig)]
    ELSE IF is_subkey_pkt(pkt.tag)
    THEN [key EXCEPT !.subkeys =
                       Append(@, [subkey |-> pkt, signatures |-> <<>>])]
    ELSE [key EXCEPT !.userids =
                       Append(@, [uid |-> pkt, signatures |-> <<>>])]

RECURSIVE AddPackets(_, _)
AddPackets(key, pkts) ==
    IF pkts = <<>> THEN key
    ELSE AddPackets(AddPacket(key, Head(pkts)), Tail(pkts))

\* no userid is added once the key has a subkey
UseridsFirst(pkts) ==
    \A i, j \in 1 .. Len(pkts) :
        (i < j /\ is_subkey_pkt(pkts[i].tag)) =>
            pkts[j].tag \notin {PGP_PKT_USER_ID, PGP_PKT_USER_ATTR}

\* the well-formed keys of exactly n packets after the primary key packet
WellFormedKeys(n) ==
    {AddPackets([key |-> p, signatures |-> <<>>, userids |-> <<>>,
                 subkeys |-> <<>>], b) :
       p \in PrimaryPkts,
       b \in {x \in [1 .. n -> SigPkts \cup UidAndAttrPkts \cup SubkeyPkts] :
                UseridsFirst(x)}}

\* the sizes of the keys of a sequence: at most MaxSeqKeys keys, at most
\* MaxSeqPkts packets after the primary key packets
RECURSIVE SumSeq(_)
SumSeq(s) == IF s = <<>> THEN 0 ELSE Head(s) + SumSeq(Tail(s))

SequenceSizes ==
    {s \in UNION {[1 .. k -> 0 .. MaxSeqPkts] : k \in 0 .. MaxSeqKeys} :
        SumSeq(s) <= MaxSeqPkts}

\* the sequences of well-formed keys of the given sizes
RECURSIVE WellFormedSequences(_)
WellFormedSequences(sizes) ==
    IF sizes = <<>> THEN {<<>>}
    ELSE {<<key>> \o rest : key \in WellFormedKeys(Head(sizes)),
                           rest \in WellFormedSequences(Tail(sizes))}

StreamInit ==
    /\ MergeIdle /\ SecretIdle /\ ValidateIdle /\ KeyIdle
    /\ SignIdle /\ StoreIdle
    /\ \E sizes \in SequenceSizes : wkeys \in WellFormedSequences(sizes)
    /\ warmor \in BOOLEAN
    /\ stream = <<>>
    /\ wret = "none"
    /\ parsed = <<>>
    /\ pret = "none"
    /\ sop = "init"
    /\ pfuel = 0
    /\ plog = <<>>

\* write_pgp_keys(keys, dst, armor)
KeysWrite ==
    /\ sop = "init"
    /\ \E w \in {write_pgp_keys(wkeys, warmor)} :
          /\ stream' = w.dst
          /\ wret' = w.ret
    /\ sop' = "write_pgp_keys"
    /\ UNCHANGED <<wkeys, warmor, parsed, pret, pfuel, plog>>
    /\ UNCHANGED streamFrame

\* process_pgp_keys on what was written
KeysParse ==
    /\ sop = "write_pgp_keys"
    /\ wret = "RNP_SUCCESS"
    /\ \E fuel \in Fuels :
         \E r \in {process_pgp_keys(stream, fuel)} :
            /\ parsed' = r.val
            /\ pret' = r.ret
            /\ pfuel' = fuel
            /\ plog' = process_pgp_keys_log(stream, fuel).log
    /\ sop' = "process_pgp_keys"
    /\ UNCHANGED <<wkeys, warmor, stream, wret>>
    /\ UNCHANGED streamFrame

StreamNext ==
    \/ KeysWrite
    \/ KeysParse

SpecStream == StreamInit /\ [][StreamNext]_vars

(***************************************************************************)
(* The parser specification: the source is any sequence of at most         *)
(* MaxParsePkts packets, raw or in up to three armored blocks, and         *)
(* process_pgp_key or process_pgp_keys is applied to it.  parsed is the    *)
(* key sequence built (the one key of process_pgp_key).                    *)
(***************************************************************************)
MaxParsePkts == 5

TrustPkt == [tag |-> PGP_PKT_TRUST]

\* bytes at the end of the source that are no whole packet header
TruncatedPkt == [tag |-> -1]

\* a primary key, a signature, a signature that does not parse, a userid,
\* a subkey, a trust packet
ParsePkts ==
    {[tag |-> PGP_PKT_PUBLIC_KEY, pub |-> 1, sec |-> 0],
     stream_write_signature(1), stream_write_signature(0),
     [tag |-> PGP_PKT_USER_ID, uid |-> 1],
     [tag |-> PGP_PKT_PUBLIC_SUBKEY, pub |-> 1, sec |-> 0],
     TrustPkt}

ParseFuels == {-1, 2}

ArmoredBlock(pkts) == [armor |-> "PGP_ARMORED_PUBLIC_KEY", pkts |-> pkts]

\* the packets in armored blocks that end after the a-th and the b-th
\* packet and at the end
ArmoredBlocks(pkts, a, b) ==
    LET n == Len(pkts)
        Block(i, j) == IF i > j THEN <<>>
                       ELSE <<ArmoredBlock(SubSeq(pkts, i, j))>>
    IN  Block(1, a) \o Block(a + 1, b) \o Block(b + 1, n)

ParseInit ==
    /\ MergeIdle /\ SecretIdle /\ ValidateIdle /\ KeyIdle
    /\ SignIdle /\ StoreIdle
    /\ \E n \in 0 .. MaxParsePkts :
         \E pk \in [1 .. n -> ParsePkts], last \in {<<>>, <<TruncatedPkt>>} :
            /\ n + Len(last) <= MaxParsePkts
            /\ \/ stream = pk \o last
               \/ \E a \in 1 .. n + Len(last) :
                    \E b \in a .. n + Len(last) :
                       stream = ArmoredBlocks(pk \o last, a, b)
    /\ wkeys = <<>>
    /\ warmor = FALSE
    /\ wret = "none"
    /\ parsed = <<>>
    /\ pret = "none"
    /\ sop = "init"
    /\ pfuel = 0
    /\ plog = <<>>

\* process_pgp_key(src, key)
SourceKeyParse ==
    /\ sop = "init"
    /\ \E fuel \in ParseFuels :
         \E r \in {process_pgp_key(stream, fuel)} :
            /\ parsed' = IF r.ret = "RNP_SUCCESS" THEN <<r.val>> ELSE <<>>
            /\ pret' = r.ret
            /\ pfuel' = fuel
            /\ plog' = process_pgp_key_log(stream, fuel, 1).log
    /\ sop' = "process_pgp_key"
    /\ UNCHANGED <<wkeys, warmor, stream, wret>>
    /\ UNCHANGED streamFrame

\* process_pgp_keys(src, keys)
SourceKeysParse ==
    /\ sop = "init"
    /\ \E fuel \in ParseFuels :
         \E r \in {process_pgp_keys(stream, fuel)} :
            /\ parsed' = r.val
            /\ pret' = r.ret
            /\ pfuel' = fuel
            /\ plog' = process_pgp_keys_log(stream, fuel).log
    /\ sop' = "process_pgp_keys"
    /\ UNCHANGED <<wkeys, warmor, stream, wret>>
    /\ UNCHANGED streamFrame

ParseNext ==
    \/ SourceKeyParse
    \/ SourceKeysParse

SpecParse == ParseInit /\ [][ParseNext]_vars

(***************************************************************************)
(* The secret key specification: a key packet is protected with            *)
(* encrypt_secret_key, its cleartext fields may be forgotten and the       *)
(* stored blob may get damaged, and it is decrypted.                       *)
(***************************************************************************)
NPasswords == 2

\* the values of a secret MPI: no leading zero byte
MpiValues == {<<1>>, <<2, 3>>}

SecretMaterials(alg) ==
    IF is_rsa_key_alg(alg)
    THEN {[secret |-> TRUE, mpis |-> <<d, p, <<129>>, <<1, 0>>>>] :
            d \in MpiValues, p \in MpiValues}
    ELSE IF SecretMpis(alg) = 1
    THEN {[secret |-> TRUE, mpis |-> <<x>>] : x \in MpiValues \cup {<<255>>}}
    ELSE {[secret |-> TRUE, mpis |-> <<>>]}

KeyAlgs == {"PGP_PKA_RSA", "PGP_PKA_DSA", "PGP_PKA_ECDSA", "PGP_PKA_NOTHING"}

Protections ==
    {[s2k |-> [usage |-> u, specifier |-> sp, salt |-> 0],
      symm_alg |-> sa, cipher_mode |-> cm, iv |-> <<0, 0>>] :
       u \in {"PGP_S2KU_NONE", "PGP_S2KU_ENCRYPTED",
              "PGP_S2KU_ENCRYPTED_AND_HASHED"},
       sp \in {"PGP_S2KS_SIMPLE", "PGP_S2KS_SALTED"},
       sa \in {"PGP_SA_AES_128", "PGP_SA_PLAINTEXT"},
       cm \in {"PGP_CIPHER_MODE_CFB", "PGP_CIPHER_MODE_NONE"}}

\* the key packets with their secret fields in the clear, and the public
\* key packets
KeyPkts ==
    UNION {{[tag |-> tg, version |-> v, alg |-> a, pub |-> 1,
             material |-> IF is_secret_key_pkt(tg) THEN m
                          ELSE forget_secret_key_fields(m, a),
             sec_protection |-> prot, sec_data |-> <<>>] :
              tg \in {PGP_PKT_SECRET_KEY, PGP_PKT_SECRET_SUBKEY,
                      PGP_PKT_PUBLIC_KEY},
              v \in {PGP_V3, PGP_V4},
              m \in SecretMaterials(a),
              prot \in Protections} : a \in KeyAlgs}

Envs == {"none", "alloc", "hash", "rng_iv", "rng_salt", "derive", "cipher"}

RngData == {[iv |-> <<i, 9>>, salt |-> s] : i \in {4, 5}, s \in {1, 2}}

\* what a call that read outside its buffer may have done
Outcomes(r) ==
    IF r.ret # "UNDEFINED" THEN {r}
    ELSE {[r EXCEPT !.ret = res, !.key.material.secret = s] :
            res \in {"RNP_SUCCESS", "RNP_ERROR_DECRYPT_FAILED",
                     "RNP_ERROR_BAD_FORMAT", "CRASH"},
            s \in {r.key.material.secret, TRUE}}

SecretInit ==
    /\ MergeIdle /\ StreamIdle /\ ValidateIdle /\ KeyIdle
    /\ SignIdle /\ StoreIdle
    /\ seckey \in KeyPkts
    /\ seckey0 = seckey
    /\ kbefore = seckey
    /\ kret = "none"
    /\ kop = "init"
    /\ kpw = 0
    /\ kenv = "none"
    /\ kdec = <<>>
    /\ encpw = 0
    /\ encret = "none"
    /\ intact = TRUE
    /\ kkeybuf = "unused"
    /\ kbuf = "none"

\* encrypt_secret_key(key, password, rng)
Encrypt ==
    /\ kop = "init"
    /\ \E password \in 1 .. NPasswords, rng \in RngData, env \in Envs :
         \E r \in {encrypt_secret_key(seckey, password, rng, env)} :
            /\ seckey' = r.key
            /\ kret' = r.ret
            /\ encret' = r.ret
            /\ kpw' = password
            /\ encpw' = password
            /\ kenv' = env
            /\ kkeybuf' = r.keybuf
            /\ kbuf' = r.buf
    /\ kbefore' = seckey
    /\ kop' = "encrypt_secret_key"
    /\ UNCHANGED <<seckey0, kdec, intact>>
    /\ UNCHANGED secretFrame

\* forget_secret_key_fields(&key->material) on a key that is stored
Forget ==
    /\ kop = "encrypt_secret_key"
    /\ kret = "RNP_SUCCESS"
    /\ seckey' = [seckey EXCEPT
                    !.material = forget_secret_key_fields(@, seckey.alg)]
    /\ kbefore' = seckey
    /\ kop' = "forget_secret_key_fields"
    /\ UNCHANGED <<seckey0, kret, kpw, kenv, kdec, encpw, encret, intact,
                   kkeybuf, kbuf>>
    /\ UNCHANGED secretFrame

\* the bytes of the blob that may get damaged
DamagedPositions(data) == {1, 3, Len(data)} \cap (1 .. Len(data))

\* the blob with n bytes left out before its last k bytes, or with a zero
\* byte put in there when n is negative
Resized(data, k, n) ==
    IF Len(data) < k + n THEN data
    ELSE SubSeq(data, 1, Len(data) - k - (IF n < 0 THEN 0 ELSE n))
           \o (IF n < 0 THEN <<0>> ELSE <<>>)
           \o SubSeq(data, Len(data) - k + 1, Len(data))

\* the stored blob is damaged: one byte is changed, the blob is cut, or a
\* byte before the two bytes of a sum16 trailer is left out or put in
Damage ==
    /\ kop \in {"encrypt_secret_key", "forget_secret_key_fields"}
    /\ encret = "RNP_SUCCESS"
    /\ \/ \E i \in DamagedPositions(seckey.sec_data) :
            seckey' = [seckey EXCEPT !.sec_data[i] = (@ + 1) % 256]
       \/ \E n \in {0, 1} :
            seckey' = [seckey EXCEPT !.sec_data = SubSeq(@, 1, n)]
       \/ \E n \in {-1, 1} :
            seckey' = [seckey EXCEPT !.sec_data = Resized(@, 2, n)]
    /\ kbefore' = seckey
    /\ intact' = FALSE
    /\ kop' = "damage"
    /\ UNCHANGED <<seckey0, kret, kpw, kenv, kdec, encpw, encret, kkeybuf,
                   kbuf>>
    /\ UNCHANGED secretFrame

\* decrypt_secret_key(key, password)
Decrypt ==
    /\ kop # "decrypt_secret_key"
    /\ \E password \in 0 .. NPasswords, env \in Envs :
         \E r \in Outcomes(decrypt_secret_key(seckey, password, env)) :
            /\ seckey' = r.key
            /\ kret' = r.ret
            /\ kdec' = r.dec
            /\ kpw' = password
            /\ kenv' = env
            /\ kkeybuf' = r.keybuf
            /\ kbuf' = r.buf
    /\ kbefore' = seckey
    /\ kop' = "decrypt_secret_key"
    /\ UNCHANGED <<seckey0, encpw, encret, intact>>
    /\ UNCHANGED secretFrame

SecretNext ==
    \/ Encrypt
    \/ Forget
    \/ Damage
    \/ Decrypt

SpecSecret == SecretInit /\ [][SecretNext]_vars

(***************************************************************************)
(* The v3 secret key specification: a locked v3 RSA key packet, whose      *)
(* stored blob is any sequence of at most MaxV3Mpis MPIs and a tail of at  *)
(* most MaxV3Tail bytes, cut or not, is decrypted.                         *)
(***************************************************************************)
MaxV3Mpis == 5

MaxV3Tail == 3

\* MPIs of no bytes, of one byte, which is less than a block, of two and
\* of three bytes, with their headers
V3Mpis == {<<0, 0>>, <<0, 8, 77>>, <<0, 16, 78, 79>>, <<0, 17, 1, 80, 81>>}

V3Cuts == {0, 1, 3}

V3Key(blob) ==
    [tag |-> PGP_PKT_SECRET_KEY, version |-> PGP_V3, alg |-> "PGP_PKA_RSA",
     pub |-> 1,
     material |-> [secret |-> FALSE, mpis |-> ZeroMpis("PGP_PKA_RSA")],
     sec_protection |->
       [s2k |-> [usage |-> "PGP_S2KU_ENCRYPTED",
                 specifier |-> "PGP_S2KS_SIMPLE", salt |-> 0],
        symm_alg |-> "PGP_SA_AES_128", cipher_mode |-> "PGP_CIPHER_MODE_CFB",
        iv |-> <<4, 9>>],
     sec_data |-> blob]

RECURSIVE Flatten(_)
Flatten(seqs) ==
    IF seqs = <<>> THEN <<>> ELSE Head(seqs) \o Flatten(Tail(seqs))

SecretV3Init ==
    /\ MergeIdle /\ StreamIdle /\ ValidateIdle /\ KeyIdle
    /\ SignIdle /\ StoreIdle
    /\ \E k \in 3 .. MaxV3Mpis, n \in 0 .. MaxV3Tail, cut \in V3Cuts :
         \E mpis \in [1 .. k -> V3Mpis] :
            \E blob \in {Flatten(mpis) \o SubSeq(<<1, 2, 3>>, 1, n)} :
               /\ cut <= Len(blob)
               /\ seckey = V3Key(SubSeq(blob, 1, Len(blob) - cut))
    /\ seckey0 = seckey
    /\ kbefore = seckey
    /\ kret = "none"
    /\ kop = "init"
    /\ kpw = 0
    /\ kenv = "none"
    /\ kdec = <<>>
    /\ encpw = 0
    /\ encret = "none"
    /\ intact = TRUE
    /\ kkeybuf = "unused"
    /\ kbuf = "none"

SecretV3Next == Decrypt

SpecSecretV3 == SecretV3Init /\ [][SecretV3Next]_vars

(***************************************************************************)
(* The validation specification: the key store holds a primary key and a   *)
(* subkey, and pgp_key_validate is applied to them.                        *)
(***************************************************************************)
MaxSubsigs == 3

MaxValidations == 2

\* the signatures by what the validation looks at: certifications by the
\* issuer, the userid and the outcome of the check, the others by the
\* outcome of the check
SigChecks ==
    {[valid |-> TRUE, expired |-> FALSE], [valid |-> TRUE, expired |-> TRUE],
     [valid |-> FALSE, expired |-> FALSE]}

Subsig(type, keyfp, keyid, uid, check) ==
    [type |-> type, keyfp |-> keyfp, keyid |-> keyid, uid |-> uid,
     valid |-> check.valid, expired |-> check.expired]

Certifications ==
    {Subsig("PGP_CERT_POSITIVE", 1, 0, 1, c) : c \in SigChecks}
      \cup {Subsig("PGP_CERT_GENERIC", i[1], i[2], 1,
                   [valid |-> TRUE, expired |-> FALSE]) :
              i \in {<<2, 1>>, <<0, 1>>, <<0, 2>>, <<-1, 1>>, <<0, -1>>}}
      \cup {Subsig("PGP_CERT_POSITIVE", 1, 1, 2,
                   [valid |-> TRUE, expired |-> FALSE])}

OtherSignatures ==
    {Subsig(type, 1, 1, 0, c) :
       type \in {"PGP_SIG_REV_KEY", "PGP_SIG_SUBKEY", "PGP_SIG_REV_SUBKEY"},
       c \in SigChecks}

Subsigs == Certifications \cup OtherSignatures

RichKey(subkey, secret, primary_grip, subsigs, valid) ==
    [subkey |-> subkey, secret |-> secret,
     grip |-> IF subkey THEN 2 ELSE 1, primary_grip |-> primary_grip,
     fp |-> 1, keyid |-> 1, uids |-> IF subkey THEN 0 ELSE 1,
     subsigs |-> subsigs, valid |-> valid, validated |-> FALSE]

\* the key store: a primary key and a subkey, which names this primary key
\* or one that is not in the store; the signatures are on one of them
ValidateInit ==
    /\ MergeIdle /\ StreamIdle /\ SecretIdle /\ KeyIdle
    /\ SignIdle /\ StoreIdle
    /\ \E n \in 0 .. MaxSubsigs :
         \E sigs \in [1 .. n -> Subsigs], s \in BOOLEAN, v \in BOOLEAN :
            \/ ring = <<RichKey(FALSE, s, 0, sigs, v),
                        RichKey(TRUE, FALSE, 1, <<>>, FALSE)>>
            \/ \E ps \in BOOLEAN, pv \in BOOLEAN, g \in {1, 3} :
                  ring = <<RichKey(FALSE, ps, 0, <<>>, pv),
                           RichKey(TRUE, s, g, sigs, v)>>
    /\ ring0 = ring
    /\ vkey = 0
    /\ vret = "none"
    /\ vop = 0
    /\ vlog = <<>>

\* pgp_key_validate(key, keyring) on the k-th key of the key store
Validate(k) ==
    /\ vop < MaxValidations
    /\ \E r \in {pgp_key_validate(ring, k)} :
          /\ ring' = r.keyring
          /\ vret' = r.ret
    /\ ring0' = ring
    /\ vkey' = k
    /\ vop' = vop + 1
    /\ UNCHANGED vlog
    /\ UNCHANGED validateFrame

ValidatePrimary == Validate(1)

ValidateSubkey == Validate(2)

ValidateNext ==
    \/ ValidatePrimary
    \/ ValidateSubkey

SpecValidate == ValidateInit /\ [][ValidateNext]_vars

(***************************************************************************)
(* Validation again and again: the key store holds one primary key, whose  *)
(* signature list changes between the runs of pgp_key_validate.  vlog is   *)
(* the history: [op |-> "validate", key, valid] with the key as it was     *)
(* before the run and the valid flag the run left, [op |-> "add", sig] and *)
(* [op |-> "remove", sig].                                                 *)
(***************************************************************************)
MaxRevalidateOps == 5

\* pgp_key_add_subsig and the caller's filling of the new element
pgp_key_add_subsig(key, sig) == [key EXCEPT !.subsigs = Append(@, sig)]

\* the key without its last signature
RemoveLastSubsig(key) ==
    [key EXCEPT !.subsigs = SubSeq(@, 1, Len(@) - 1)]

ValidSelfCert ==
    Subsig("PGP_CERT_POSITIVE", 1, 0, 1, [valid |-> TRUE, expired |-> FALSE])

ValidKeyRevocation ==
    Subsig("PGP_SIG_REV_KEY", 1, 1, 0, [valid |-> TRUE, expired |-> FALSE])

\* the signatures of the key at the start
StoredSubsigs ==
    {ValidSelfCert, ValidKeyRevocation,
     Subsig("PGP_CERT_POSITIVE", 1, 0, 1, [valid |-> TRUE, expired |-> TRUE]),
     Subsig("PGP_CERT_POSITIVE", 1, 0, 1, [valid |-> FALSE, expired |-> FALSE]),
     Subsig("PGP_CERT_GENERIC", 2, 1, 1, [valid |-> TRUE, expired |-> FALSE]),
     Subsig("PGP_SIG_REV_KEY", 1, 1, 0, [valid |-> FALSE, expired |-> FALSE])}

\* the signatures that are added
AddedSubsigs ==
    {ValidSelfCert, ValidKeyRevocation,
     Subsig("PGP_SIG_REV_KEY", 1, 1, 0, [valid |-> FALSE, expired |-> FALSE])}

RevalidateInit ==
    /\ MergeIdle /\ StreamIdle /\ SecretIdle /\ KeyIdle
    /\ SignIdle /\ StoreIdle
    /\ \E n \in 0 .. 2 :
         \E sigs \in [1 .. n -> StoredSubsigs], s \in BOOLEAN, v \in BOOLEAN :
            ring = <<RichKey(FALSE, s, 0, sigs, v)>>
    /\ ring0 = ring
    /\ vkey = 0
    /\ vret = "none"
    /\ vop = 0
    /\ vlog = <<>>

\* pgp_key_validate(key, keyring) on the primary key
Revalidate ==
    /\ vop < MaxRevalidateOps
    /\ \E r \in {pgp_key_validate(ring, 1)} :
          /\ ring' = r.keyring
          /\ vret' = r.ret
          /\ vlog' = Append(vlog, [op |-> "validate", key |-> ring[1],
                                   valid |-> r.keyring[1].valid])
    /\ ring0' = ring
    /\ vkey' = 1
    /\ vop' = vop + 1
    /\ UNCHANGED validateFrame

\* a signature is added to the key
AddSubsig ==
    /\ vop < MaxRevalidateOps
    /\ \E sig \in AddedSubsigs :
          /\ ring' = [ring EXCEPT ![1] = pgp_key_add_subsig(@, sig)]
          /\ vlog' = Append(vlog, [op |-> "add", sig |-> sig])
    /\ vop' = vop + 1
    /\ UNCHANGED <<ring0, vkey, vret>>
    /\ UNCHANGED validateFrame

\* the signature added last is taken off the key again
RemoveSubsig ==
    /\ vop < MaxRevalidateOps
    /\ vlog # <<>>
    /\ vlog[Len(vlog)].op \in {"add", "validate"}
    /\ \E i \in 1 .. Len(vlog) :
          /\ vlog[i].op = "add"
          /\ \A j \in i + 1 .. Len(vlog) : vlog[j].op = "validate"
          /\ vlog' = Append(vlog, [op |-> "remove", sig |-> vlog[i].sig])
    /\ ring' = [ring EXCEPT ![1] = RemoveLastSubsig(@)]
    /\ vop' = vop + 1
    /\ UNCHANGED <<ring0, vkey, vret>>
    /\ UNCHANGED validateFrame

RevalidateNext ==
    \/ Revalidate
    \/ AddSubsig
    \/ RemoveSubsig

SpecRevalidate == RevalidateInit /\ [][RevalidateNext]_vars

(***************************************************************************)
(* Keys.  A key is [pkt, raw, format]: its key packet, raw packet 0 (what  *)
(* stream_write_key wrote of a secret key packet) and its key store        *)
(* format.  A password is 0 for the null pointer, 1 .. NPasswords, or      *)
(* EmptyPassword for the empty string, which is what a zeroed password     *)
(* buffer holds.                                                           *)
(***************************************************************************)
EmptyPassword == NPasswords + 1

\* the protection fields of a key packet that is stored in the clear
NoProtection ==
    [s2k |-> [usage |-> "PGP_S2KU_NONE", specifier |-> "PGP_S2KS_SIMPLE",
              salt |-> 0, hash_alg |-> "PGP_HASH_UNKNOWN", iterations |-> 0],
     symm_alg |-> "PGP_SA_PLAINTEXT", cipher_mode |-> "PGP_CIPHER_MODE_CFB",
     iv |-> <<0, 0>>]

\* the protection fields stream_write_key writes: nothing but the usage
\* for a key in the clear, the salt unless the specifier is simple, the
\* iterations of an iterated specifier
WrittenProtection(prot) ==
    IF prot.s2k.usage = "PGP_S2KU_NONE" THEN NoProtection
    ELSE [s2k |-> [usage |-> prot.s2k.usage,
                   specifier |-> prot.s2k.specifier,
                   hash_alg |-> prot.s2k.hash_alg,
                   salt |-> IF prot.s2k.specifier = "PGP_S2KS_SIMPLE"
                            THEN 0 ELSE prot.s2k.salt,
                   iterations |->
                     IF prot.s2k.specifier = "PGP_S2KS_ITERATED_AND_SALTED"
                     THEN prot.s2k.iterations ELSE 0],
          symm_alg |-> prot.symm_alg,
          cipher_mode |-> "PGP_CIPHER_MODE_CFB",
          iv |-> prot.iv]

\* stream_write_key of a secret key packet: the cleartext MPIs of the
\* material are not written
RawKeyPacket(skey) ==
    [tag |-> skey.tag, version |-> skey.version, alg |-> skey.alg,
     pub |-> skey.pub,
     sec_protection |-> WrittenProtection(skey.sec_protection),
     sec_data |-> skey.sec_data]

\* stream_parse_key of a raw packet: the secret fields stay encrypted
ParsedKeyPacket(packet) ==
    [tag |-> packet.tag, version |-> packet.version, alg |-> packet.alg,
     pub |-> packet.pub,
     material |-> [secret |-> FALSE, mpis |-> ZeroMpis(packet.alg)],
     sec_protection |-> packet.sec_protection,
     sec_data |-> packet.sec_data]

\* a password provider is the null pointer, or a callback that writes pw
\* to the buffer it is given and tells whether it got a password
pgp_request_password(provider) ==
    [ok |-> provider.callback = "ok",
     password |-> IF provider.callback = "null" THEN EmptyPassword
                  ELSE provider.pw]

pgp_key_is_secret(key) == is_secret_key_pkt(key.pkt.tag)

pgp_key_is_encrypted(key) ==
    pgp_key_is_secret(key) /\ ~key.pkt.material.secret

pgp_key_is_protected(key) ==
    key.pkt.sec_protection.s2k.usage # "PGP_S2KU_NONE"

pgp_key_is_locked(key) ==
    pgp_key_is_secret(key) /\ pgp_key_is_encrypted(key)

\* the result tells what the local password buffer holds at the return.
\* The G10 format is not modelled: a key is in the GPG or the KBX format,
\* or in none that is known
pgp_decrypt_seckey(key, provider, env) ==
    LET Done(isok, val, buf, wasasked) ==
          [ok |-> isok, val |-> val, password |-> EmptyPassword,
           asked |-> wasasked]
        \* pgp_decrypt_seckey_pgp
        Decrypted(r, buf, wasasked) ==
          Done(r.ret = "RNP_SUCCESS", r.key, buf, wasasked)
        Decryptor(buf, wasasked) ==
          IF env = "alloc" THEN Done(FALSE, key.pkt, buf, wasasked)
          ELSE Decrypted(decrypt_secret_key(ParsedKeyPacket(key.raw), buf,
                                            env),
                         buf, wasasked)
        Requested(r) ==
          IF ~r.ok THEN Done(FALSE, key.pkt, r.password, TRUE)
          ELSE Decryptor(r.password, TRUE)
    IN  IF ~pgp_key_is_secret(key) \/ provider.callback = "null"
        THEN Done(FALSE, key.pkt, EmptyPassword, FALSE)
        ELSE IF key.format \notin {"PGP_KEY_STORE_GPG", "PGP_KEY_STORE_KBX"}
        THEN Done(FALSE, key.pkt, EmptyPassword, FALSE)
        ELSE IF pgp_key_is_protected(key)
        THEN Requested(pgp_request_password(provider))
        ELSE Decryptor(EmptyPassword, FALSE)

\* an unlock that decrypts the key whether it is locked or not
pgp_key_unlock_always(key, provider, env) ==
    LET Unlocked(d) ==
          [ret |-> d.ok,
           key |-> IF d.ok
                   THEN [key EXCEPT
                           !.pkt.material =
                              [d.val.material EXCEPT !.secret = TRUE]]
                   ELSE key,
           pwbuf |-> <<d.password>>,
           asked |-> d.asked]
    IN  IF provider.callback = "null" \/ ~pgp_key_is_secret(key)
        THEN [ret |-> FALSE, key |-> key, pwbuf |-> <<>>, asked |-> FALSE]
        ELSE Unlocked(pgp_decrypt_seckey(key, provider, env))

pgp_key_unlock(key, provider, env) ==
    LET Return(res) == [ret |-> res, key |-> key, pwbuf |-> <<>>,
                        asked |-> FALSE]
        Unlocked(d) ==
          [ret |-> d.ok,
           key |-> IF d.ok
                   THEN [key EXCEPT
                           !.pkt.material =
                              [d.val.material EXCEPT !.secret = TRUE]]
                   ELSE key,
           pwbuf |-> <<d.password>>,
           asked |-> d.asked]
    IN  IF provider.callback = "null" THEN Return(FALSE)
        ELSE IF ~pgp_key_is_secret(key) THEN Return(FALSE)
        ELSE IF ~pgp_key_is_locked(key) THEN Return(TRUE)
        ELSE Unlocked(pgp_decrypt_seckey(key, provider, env))

\* pgp_key_lock that marks the key locked and keeps the secret MPIs
pgp_key_lock_marked(key) ==
    [ret |-> TRUE, key |-> [key EXCEPT !.pkt.material.secret = FALSE]]

pgp_key_lock(key) ==
    IF ~pgp_key_is_secret(key) THEN [ret |-> FALSE, key |-> key]
    ELSE IF pgp_key_is_locked(key) THEN [ret |-> TRUE, key |-> key]
    ELSE [ret |-> TRUE,
          key |-> [key EXCEPT
                     !.pkt.material =
                        forget_secret_key_fields(@, key.pkt.alg)]]

\* pgp_write_seckey encrypts skey itself, so skey is a result too
write_key_to_rawpacket(skey, packet, type, format, password, rng, env) ==
    LET Failed(k) == [ok |-> FALSE, seckey |-> k, packet |-> packet]
        \* pgp_write_seckey
        Written(r) ==
          IF r.ret # "RNP_SUCCESS"
          THEN Failed([r.key EXCEPT !.tag = skey.tag])
          ELSE [ok |-> TRUE,
                seckey |-> [r.key EXCEPT !.tag = skey.tag],
                packet |-> RawKeyPacket(r.key)]
    IN  IF env = "alloc" THEN Failed(skey)
        ELSE IF format \in {"PGP_KEY_STORE_GPG", "PGP_KEY_STORE_KBX"}
        THEN Written(encrypt_secret_key([skey EXCEPT !.tag = type],
                                        password, rng, env))
        ELSE Failed(skey)

\* the iterations that take the default time with a hash
pgp_s2k_compute_iters(hash_alg) ==
    IF hash_alg = "PGP_HASH_SHA1" THEN 3000 ELSE 2000

\* the iterations that the one-octet count can encode: here the powers
\* of two from 1024 on
pgp_s2k_round_iterations(iterations) ==
    LET RECURSIVE RoundUp(_)
        RoundUp(c) == IF c >= iterations THEN c ELSE RoundUp(2 * c)
    IN  RoundUp(1024)

\* decrypted_seckey is [own, pkt]: own tells that it is the key's own key
\* packet, and then pkt is not looked at.  protection.null stands for the
\* null pointer.  The result holds the decrypted key packet after the
\* call
pgp_key_protect(key, decrypted_seckey, format, protection, new_password, rng, env) ==
    LET default_protection ==
          [symm_alg |-> "PGP_SA_AES_256",
           cipher_mode |-> "PGP_CIPHER_MODE_CFB",
           iterations |-> 0,
           hash_alg |-> "PGP_HASH_SHA256"]
        given == IF protection.null THEN default_protection ELSE protection
        symm_alg == IF given.symm_alg = "PGP_SA_PLAINTEXT"
                    THEN default_protection.symm_alg ELSE given.symm_alg
        cipher_mode == IF given.cipher_mode = "PGP_CIPHER_MODE_NONE"
                       THEN default_protection.cipher_mode
                       ELSE given.cipher_mode
        hash_alg == IF given.hash_alg = "PGP_HASH_UNKNOWN"
                    THEN default_protection.hash_alg ELSE given.hash_alg
        iterations == IF given.iterations = 0
                      THEN pgp_s2k_compute_iters(hash_alg)
                      ELSE given.iterations
        skey ==
          [key.pkt EXCEPT
             !.sec_protection.s2k.usage = "PGP_S2KU_ENCRYPTED_AND_HASHED",
             !.sec_protection.s2k.specifier = "PGP_S2KS_ITERATED_AND_SALTED",
             !.sec_protection.symm_alg = symm_alg,
             !.sec_protection.cipher_mode = cipher_mode,
             !.sec_protection.s2k.iterations =
                pgp_s2k_round_iterations(iterations),
             !.sec_protection.s2k.hash_alg = hash_alg]
        Return(res) == [ret |-> res, key |-> key,
                        dec |-> IF decrypted_seckey.own THEN key.pkt
                                ELSE decrypted_seckey.pkt]
        Written(w) ==
          [ret |-> w.ok,
           key |-> [pkt |-> IF decrypted_seckey.own THEN w.seckey
                            ELSE skey,
                    raw |-> w.packet,
                    format |-> IF w.ok THEN format ELSE key.format],
           dec |-> w.seckey]
    IN  IF new_password = 0 THEN Return(FALSE)
        ELSE IF ~pgp_key_is_secret(key) THEN Return(FALSE)
        ELSE IF ~(IF decrypted_seckey.own THEN key.pkt
                  ELSE decrypted_seckey.pkt).material.secret
        THEN Return(FALSE)
        ELSE Written(write_key_to_rawpacket(
                       IF decrypted_seckey.own THEN skey
                       ELSE decrypted_seckey.pkt,
                       key.raw, key.pkt.tag, format, new_password, rng,
                       env))

\* an unprotect that unlocks the key and marks it unprotected
pgp_key_unprotect_unlocked(key, provider, env, rng, wenv) ==
    LET Unlocked(u) ==
          [u EXCEPT !.key.pkt.sec_protection.s2k.usage = "PGP_S2KU_NONE"]
    IN  Unlocked(pgp_key_unlock(key, provider, env))

\* env is the step that fails in pgp_decrypt_seckey, wenv the one that
\* fails in write_key_to_rawpacket
pgp_key_unprotect(key, provider, env, rng, wenv) ==
    LET Return(res, k, d) == [ret |-> res, key |-> k, pwbuf |-> d.pwbuf,
                              asked |-> d.asked]
        None == [pwbuf |-> <<>>, asked |-> FALSE]
        Unset(skey) ==
          [skey EXCEPT !.sec_protection.s2k.usage = "PGP_S2KU_NONE"]
        \* the key packet itself was written
        WrittenOwn(w) ==
          Return(w.ok, [key EXCEPT !.pkt = w.seckey, !.raw = w.packet],
                 None)
        \* the decrypted key packet was written
        Written(w, d) ==
          IF ~w.ok THEN Return(FALSE, key, d)
          ELSE Return(TRUE,
                      [key EXCEPT
                         !.pkt = [copy_key_pkt(w.seckey, FALSE) EXCEPT
                                    !.material =
                                       forget_secret_key_fields(
                                         @, w.seckey.alg)],
                         !.raw = w.packet],
                      d)
        Decrypted(d) ==
          IF ~d.ok
          THEN Return(FALSE, key,
                      [pwbuf |-> <<d.password>>, asked |-> d.asked])
          ELSE Written(write_key_to_rawpacket(Unset(d.val), key.raw,
                                              key.pkt.tag, key.format, 0,
                                              rng, wenv),
                       [pwbuf |-> <<d.password>>, asked |-> d.asked])
    IN  IF ~pgp_key_is_secret(key) THEN Return(FALSE, key, None)
        ELSE IF ~pgp_key_is_protected(key) THEN Return(TRUE, key, None)
        ELSE IF pgp_key_is_encrypted(key)
        THEN Decrypted(pgp_decrypt_seckey(key, provider, env))
        ELSE WrittenOwn(write_key_to_rawpacket(Unset(key.pkt), key.raw,
                                               key.pkt.tag, key.format, 0,
                                               rng, wenv))

rnp_key_add_protection(key, format, protection, password_provider, rng, env) ==
    LET Protected(r) ==
          [ret |-> r.ret, key |-> r.key, pwbuf |-> <<EmptyPassword>>,
           asked |-> TRUE]
        Requested(r) ==
          IF ~r.ok
          THEN [ret |-> FALSE, key |-> key, pwbuf |-> <<r.password>>,
                asked |-> TRUE]
          ELSE Protected(pgp_key_protect(key, [own |-> TRUE, pkt |-> key.pkt],
                                         format, protection, r.password,
                                         rng, env))
    IN  IF password_provider.callback = "null"
        THEN [ret |-> FALSE, key |-> key, pwbuf |-> <<EmptyPassword>>,
              asked |-> FALSE]
        ELSE Requested(pgp_request_password(password_provider))

(***************************************************************************)
(* The key specification: a key that was stored with encrypt_secret_key    *)
(* is locked, unlocked, protected and unprotected, at most MaxKeyOps       *)
(* times.                                                                  *)
(***************************************************************************)
MaxKeyOps == 3

\* a provider that fails may have written to the buffer before
Providers ==
    {[callback |-> "ok", pw |-> p] : p \in 1 .. NPasswords}
      \cup {[callback |-> "fail", pw |-> 1],
            [callback |-> "null", pw |-> EmptyPassword]}

\* the steps that are made to fail
KeyEnvs == {"none", "alloc", "cipher"}

KeyRngData == {[iv |-> <<4, 9>>, salt |-> 1], [iv |-> <<5, 9>>, salt |-> 2]}

ProtectionParams ==
    {[null |-> TRUE, symm_alg |-> "PGP_SA_PLAINTEXT",
      cipher_mode |-> "PGP_CIPHER_MODE_NONE",
      hash_alg |-> "PGP_HASH_UNKNOWN", iterations |-> 0],
     [null |-> FALSE, symm_alg |-> "PGP_SA_AES_128",
      cipher_mode |-> "PGP_CIPHER_MODE_NONE",
      hash_alg |-> "PGP_HASH_SHA1", iterations |-> 1000],
     [null |-> FALSE, symm_alg |-> "PGP_SA_PLAINTEXT",
      cipher_mode |-> "PGP_CIPHER_MODE_OCB",
      hash_alg |-> "PGP_HASH_UNKNOWN", iterations |-> 0]}

KeyFormats == {"PGP_KEY_STORE_GPG", "PGP_KEY_STORE_KBX"}

\* the protections a stored key starts with
StoredProtections ==
    {NoProtection,
     [NoProtection EXCEPT
        !.s2k = [usage |-> "PGP_S2KU_ENCRYPTED_AND_HASHED",
                 specifier |-> "PGP_S2KS_ITERATED_AND_SALTED",
                 salt |-> 0, hash_alg |-> "PGP_HASH_SHA1",
                 iterations |-> 1024],
        !.symm_alg = "PGP_SA_AES_128"]}

\* the key packets before they are stored: secret ones in the clear, and
\* public ones
ClearKeyPkts ==
    UNION {{[tag |-> tg, version |-> v, alg |-> a, pub |-> 1,
             material |-> IF is_secret_key_pkt(tg) THEN m
                          ELSE forget_secret_key_fields(m, a),
             sec_protection |-> prot, sec_data |-> <<>>] :
              tg \in {PGP_PKT_SECRET_KEY, PGP_PKT_PUBLIC_KEY},
              v \in {PGP_V3, PGP_V4},
              m \in {x \in SecretMaterials(a) : x.mpis[1] # <<255>>},
              prot \in StoredProtections} :
             a \in {"PGP_PKA_DSA"}}

\* the key of a key packet that was stored: the key packet is as
\* encrypt_secret_key left it, or locked
StoredKeys(r, format) ==
    {[pkt |-> [r.key EXCEPT !.material = m],
      raw |-> RawKeyPacket(r.key),
      format |-> format] :
        m \in {r.key.material,
               forget_secret_key_fields(r.key.material, r.key.alg)}}

KeyInit ==
    /\ MergeIdle /\ StreamIdle /\ SecretIdle /\ ValidateIdle
    /\ SignIdle /\ StoreIdle
    /\ \E k \in ClearKeyPkts, format \in {"PGP_KEY_STORE_GPG"} :
         IF is_secret_key_pkt(k.tag)
         THEN \E password \in 1 .. NPasswords :
                \E r \in {encrypt_secret_key(k, password,
                                             [iv |-> <<4, 9>>, salt |-> 1],
                                             "none")} :
                   /\ r.ret = "RNP_SUCCESS"
                   /\ pgpkey \in StoredKeys(r, format)
         ELSE pgpkey = [pkt |-> k, raw |-> RawKeyPacket(k),
                        format |-> format]
    /\ pgpkey0 = pgpkey
    /\ pgpbefore = pgpkey
    /\ keyop = "init"
    /\ keyres = FALSE
    /\ pwbuf = <<>>
    /\ asked = FALSE
    /\ nops = 0

\* what an operation on the key leaves behind
KeyDone(name, r) ==
    /\ pgpkey' = r.key
    /\ keyres' = r.ret
    /\ pwbuf' = r.pwbuf
    /\ asked' = r.asked
    /\ pgpbefore' = pgpkey
    /\ keyop' = name
    /\ nops' = nops + 1
    /\ UNCHANGED pgpkey0
    /\ UNCHANGED keyFrame

KeyLock ==
    /\ nops < MaxKeyOps
    /\ \E r \in {pgp_key_lock(pgpkey)} :
         KeyDone("pgp_key_lock",
                 [ret |-> r.ret, key |-> r.key, pwbuf |-> <<>>,
                  asked |-> FALSE])

KeyUnlock ==
    /\ nops < MaxKeyOps
    /\ \E provider \in Providers, env \in KeyEnvs :
         KeyDone("pgp_key_unlock", pgp_key_unlock(pgpkey, provider, env))

\* pgp_key_protect(key, &key->pkt, format, protection, new_password)
KeyProtect ==
    /\ nops < MaxKeyOps
    /\ \E format \in KeyFormats \cup {"PGP_KEY_STORE_UNKNOWN"},
          protection \in ProtectionParams,
          new_password \in 0 .. NPasswords,
          rng \in KeyRngData, env \in KeyEnvs :
          \E r \in {pgp_key_protect(pgpkey,
                                    [own |-> TRUE, pkt |-> pgpkey.pkt],
                                    format, protection, new_password, rng,
                                    env)} :
             KeyDone("pgp_key_protect",
                     [ret |-> r.ret, key |-> r.key, pwbuf |-> <<>>,
                      asked |-> FALSE])

\* pgp_key_protect with the key packet that pgp_decrypt_seckey returned
KeyProtectDecrypted ==
    /\ nops < MaxKeyOps
    /\ \E provider \in Providers :
         \E d \in {pgp_decrypt_seckey(pgpkey, provider, "none")} :
            /\ d.ok
            /\ \E protection \in ProtectionParams,
                  new_password \in 1 .. NPasswords,
                  rng \in KeyRngData, env \in KeyEnvs :
                  \E r \in {pgp_key_protect(pgpkey,
                                            [own |-> FALSE, pkt |-> d.val],
                                            "PGP_KEY_STORE_KBX", protection,
                                            new_password, rng, env)} :
                     KeyDone("pgp_key_protect_decrypted",
                             [ret |-> r.ret, key |-> r.key,
                              pwbuf |-> <<d.password>>, asked |-> d.asked])

KeyUnprotect ==
    /\ nops < MaxKeyOps
    /\ \E provider \in Providers, env \in KeyEnvs, wenv \in KeyEnvs :
         KeyDone("pgp_key_unprotect",
                 pgp_key_unprotect(pgpkey, provider, env,
                                   [iv |-> <<4, 9>>, salt |-> 1], wenv))

KeyAddProtection ==
    /\ nops < MaxKeyOps
    /\ \E protection \in ProtectionParams, provider \in Providers,
          rng \in KeyRngData, env \in KeyEnvs :
         KeyDone("rnp_key_add_protection",
                 rnp_key_add_protection(pgpkey, "PGP_KEY_STORE_GPG",
                                        protection, provider, rng, env))

KeyNext ==
    \/ KeyLock
    \/ KeyUnlock
    \/ KeyProtect
    \/ KeyProtectDecrypted
    \/ KeyUnprotect
    \/ KeyAddProtection

SpecKey == KeyInit /\ [][KeyNext]_vars

(***************************************************************************)
(* Self-signatures.  A key packet is here [alg, id, hash_min, secret]: id  *)
(* stands for the key material, which the key id and the fingerprint are   *)
(* computed from, hash_min for the size of q of a DSA key or the curve of  *)
(* an ECDSA key, by the weakest hash it may be used with.  Key flags are a *)
(* set, empty for 0.  A hash context is [alg, data]; a signature tells in  *)
(* hash the context it was calculated from and in signer the material it   *)
(* was calculated with.  env is the sub-step that is made to fail.         *)
(***************************************************************************)
pgp_digest_length(hash) ==
    IF hash = "PGP_HASH_SHA1" THEN 20
    ELSE IF hash = "PGP_HASH_SHA256" THEN 32
    ELSE IF hash = "PGP_HASH_SHA512" THEN 64
    ELSE 0

\* the adjustment that always takes the minimum hash of a DSA or ECDSA key
pgp_hash_adjust_alg_to_key_min(hash, pubkey) ==
    IF pubkey.alg # "PGP_PKA_DSA" /\ pubkey.alg # "PGP_PKA_ECDSA"
    THEN hash
    ELSE pubkey.hash_min

pgp_hash_adjust_alg_to_key(hash, pubkey) ==
    IF pubkey.alg # "PGP_PKA_DSA" /\ pubkey.alg # "PGP_PKA_ECDSA"
    THEN hash
    ELSE IF pgp_digest_length(hash) < pgp_digest_length(pubkey.hash_min)
    THEN pubkey.hash_min
    ELSE hash

pgp_pk_alg_capabilities(alg) ==
    IF alg = "PGP_PKA_RSA"
    THEN {"PGP_KF_SIGN", "PGP_KF_CERTIFY", "PGP_KF_AUTH", "PGP_KF_ENCRYPT"}
    ELSE IF alg = "PGP_PKA_RSA_SIGN_ONLY" THEN {"PGP_KF_SIGN"}
    ELSE IF alg = "PGP_PKA_RSA_ENCRYPT_ONLY" THEN {"PGP_KF_ENCRYPT"}
    ELSE IF alg = "PGP_PKA_ELGAMAL_ENCRYPT_OR_SIGN" THEN {}
    ELSE IF alg \in {"PGP_PKA_DSA", "PGP_PKA_ECDSA", "PGP_PKA_EDDSA"}
    THEN {"PGP_KF_SIGN", "PGP_KF_CERTIFY", "PGP_KF_AUTH"}
    ELSE IF alg = "PGP_PKA_SM2"
    THEN {"PGP_KF_SIGN", "PGP_KF_CERTIFY", "PGP_KF_AUTH", "PGP_KF_ENCRYPT"}
    ELSE IF alg \in {"PGP_PKA_ECDH", "PGP_PKA_ELGAMAL"}
    THEN {"PGP_KF_ENCRYPT"}
    ELSE {}

pgp_keyid(key) == <<"keyid", key.id>>

pgp_fingerprint(key) == <<"fingerprint", key.id>>

\* a signature packet with no subpackets, not calculated yet
EmptySignature(type, halg, palg) ==
    [version |-> PGP_V4, type |-> type, halg |-> halg, palg |-> palg,
     keyfp |-> <<>>, keyid |-> <<>>, key_flags |-> {}, key_expiration |-> 0,
     primary_uid |-> FALSE, embedded |-> <<>>, hash |-> <<>>, signer |-> 0]

\* the signature is calculated from the hash context with the secret
\* material of a key of the signature's algorithm that can sign
signature_calculate(sig, material, hash, env) ==
    IF env = "sign" \/ ~material.secret \/ sig.palg # material.alg
         \/ material.alg \notin {"PGP_PKA_RSA", "PGP_PKA_RSA_SIGN_ONLY",
                               "PGP_PKA_DSA", "PGP_PKA_ECDSA",
                               "PGP_PKA_EDDSA", "PGP_PKA_SM2"}
    THEN [ok |-> FALSE, sig |-> sig]
    ELSE [ok |-> TRUE, sig |-> [sig EXCEPT !.hash = hash,
                                             !.signer = material.id]]

\* the signature is one by key over data: the hash that the signature
\* declares, taken over data, is what was signed with the key's material
signature_validate(sig, key, data) ==
    /\ sig.palg = key.alg
    /\ sig.signer = key.id
    /\ sig.hash = [alg |-> sig.halg, data |-> data]

\* res is the signature that was appended, none for the null pointer
transferable_userid_certify(key, userid, signer, hash_alg, cert, env) ==
    LET Failed == [res |-> <<>>, userid |-> userid]
        sig == [EmptySignature("PGP_CERT_POSITIVE",
                               pgp_hash_adjust_alg_to_key(hash_alg, signer),
                               signer.alg)
                  EXCEPT !.keyfp = pgp_fingerprint(signer),
                         !.key_expiration = cert.key_expiration,
                         !.key_flags = cert.key_flags,
                         !.primary_uid = cert.primary,
                         !.keyid = pgp_keyid(signer)]
        Calculated(c) ==
          IF ~c.ok \/ env = "list_append" THEN Failed
          ELSE [res |-> <<c.sig>>,
                userid |-> [userid EXCEPT !.signatures = Append(@, c.sig)]]
    IN  IF env \in {"rng_init", "keyid", "fingerprint", "subpacket", "hash"}
        THEN Failed
        ELSE Calculated(signature_calculate(
                          sig, signer,
                          [alg |-> sig.halg,
                           data |-> <<"certification", key.id, userid.uid>>],
                          env))

\* hash is the context that was copied from the one of the binding
\* signature
calculate_primary_binding(key, subkey, halg, hash, env) ==
    LET sig == [EmptySignature("PGP_SIG_PRIMARY",
                               pgp_hash_adjust_alg_to_key(halg, subkey),
                               subkey.alg)
                  EXCEPT !.keyid = pgp_keyid(subkey)]
    IN  IF env = "primary_binding" THEN [ok |-> FALSE, sig |-> sig]
        ELSE signature_calculate(sig, subkey, hash,
                                 IF env = "sign_primary" THEN "sign"
                                 ELSE "none")

\* transferable_subkey_bind that appends the signature before the primary
\* key binding is embedded
transferable_subkey_bind_first(key, subkey, hash_alg, binding, env) ==
    [res |-> <<>>,
     subkey |-> [subkey EXCEPT
                   !.signatures =
                      Append(@, EmptySignature(
                                  "PGP_SIG_SUBKEY",
                                  pgp_hash_adjust_alg_to_key(hash_alg, key),
                                  key.alg))]]

transferable_subkey_bind(key, subkey, hash_alg, binding, env) ==
    LET Failed == [res |-> <<>>, subkey |-> subkey]
        sig == [EmptySignature("PGP_SIG_SUBKEY",
                               pgp_hash_adjust_alg_to_key(hash_alg, key),
                               key.alg)
                  EXCEPT !.keyfp = pgp_fingerprint(key),
                         !.key_expiration = binding.key_expiration,
                         !.key_flags = binding.key_flags]
        \* signature_hash_binding, and the copy of it
        hash == [alg |-> sig.halg,
                 data |-> <<"binding", key.id, subkey.subkey.id>>]
        realkf == IF binding.key_flags # {} THEN binding.key_flags
                  ELSE pgp_pk_alg_capabilities(key.alg)
        Done(s) ==
          IF env \in {"keyid_subpacket", "list_append"} THEN Failed
          ELSE [res |-> <<[s EXCEPT !.keyid = pgp_keyid(key)]>>,
                subkey |-> [subkey EXCEPT
                              !.signatures =
                                 Append(@, [s EXCEPT
                                              !.keyid = pgp_keyid(key)])]]
        Embedded(s, e) ==
          IF ~e.ok \/ env = "embedded" THEN Failed
          ELSE Done([s EXCEPT !.embedded = <<e.sig>>])
        Calculated(c) ==
          IF ~c.ok THEN Failed
          ELSE IF "PGP_KF_SIGN" \in realkf
          THEN Embedded(c.sig,
                        calculate_primary_binding(key, subkey.subkey,
                                                  hash_alg, hash, env))
          ELSE Done(c.sig)
    IN  IF env \in {"rng_init", "keyid", "fingerprint", "subpacket", "hash"}
        THEN Failed
        ELSE Calculated(signature_calculate(sig, key, hash, env))

(***************************************************************************)
(* The signing specification: userids are certified by and subkeys are     *)
(* bound to a primary key, at most MaxSigns times.                         *)
(***************************************************************************)
MaxSigns == 2

HashAlgs == {"PGP_HASH_SHA1", "PGP_HASH_SHA256", "PGP_HASH_SHA512"}

\* the key packets with the material id: the secret ones, and a public
\* RSA key
SignKeys(id) ==
    {[alg |-> k[1], id |-> id, hash_min |-> k[2], secret |-> TRUE] :
       k \in {<<"PGP_PKA_RSA", "PGP_HASH_UNKNOWN">>,
              <<"PGP_PKA_DSA", "PGP_HASH_SHA1">>,
              <<"PGP_PKA_DSA", "PGP_HASH_SHA256">>,
              <<"PGP_PKA_ECDSA", "PGP_HASH_SHA256">>,
              <<"PGP_PKA_ECDSA", "PGP_HASH_SHA512">>,
              <<"PGP_PKA_ECDH", "PGP_HASH_UNKNOWN">>}}
      \cup {[alg |-> "PGP_PKA_RSA", id |-> id,
             hash_min |-> "PGP_HASH_UNKNOWN", secret |-> FALSE]}

KeyFlags == {{}, {"PGP_KF_SIGN"}, {"PGP_KF_ENCRYPT"}}

SignEnvs ==
    {"none", "rng_init", "keyid", "fingerprint", "subpacket", "hash", "sign",
     "primary_binding", "sign_primary", "embedded", "keyid_subpacket",
     "list_append"}

SignInit ==
    /\ MergeIdle /\ StreamIdle /\ SecretIdle /\ ValidateIdle /\ KeyIdle
    /\ StoreIdle
    /\ sgkey \in SignKeys(1)
    /\ \/ \E k \in SignKeys(2) : sgtarget = [subkey |-> k, signatures |-> <<>>]
       \/ \E u \in 1 .. NUids : sgtarget = [uid |-> u, signatures |-> <<>>]
    /\ sgbefore = sgtarget
    /\ sgres = <<>>
    /\ sgop = "init"
    /\ sgargs = <<>>
    /\ nsigns = 0

UseridCertify ==
    /\ nsigns < MaxSigns
    /\ "uid" \in DOMAIN sgtarget
    /\ \E signer \in {sgkey} \cup {k \in SignKeys(3) : k.alg = "PGP_PKA_DSA"},
          hash_alg \in HashAlgs, key_flags \in KeyFlags,
          primary \in BOOLEAN, env \in SignEnvs :
          \E r \in {transferable_userid_certify(
                      sgkey, sgtarget, signer, hash_alg,
                      [key_flags |-> key_flags, key_expiration |-> 0,
                       primary |-> primary], env)} :
             /\ sgtarget' = r.userid
             /\ sgres' = r.res
             /\ sgargs' = [signer |-> signer, hash_alg |-> hash_alg,
                           key_flags |-> key_flags, env |-> env]
    /\ sgbefore' = sgtarget
    /\ sgop' = "transferable_userid_certify"
    /\ nsigns' = nsigns + 1
    /\ UNCHANGED sgkey
    /\ UNCHANGED signFrame

SubkeyBind ==
    /\ nsigns < MaxSigns
    /\ "subkey" \in DOMAIN sgtarget
    /\ \E hash_alg \in HashAlgs, key_flags \in KeyFlags, env \in SignEnvs :
          \E r \in {transferable_subkey_bind(
                      sgkey, sgtarget, hash_alg,
                      [key_flags |-> key_flags, key_expiration |-> 0],
                      env)} :
             /\ sgtarget' = r.subkey
             /\ sgres' = r.res
             /\ sgargs' = [signer |-> sgkey, hash_alg |-> hash_alg,
                           key_flags |-> key_flags, env |-> env]
    /\ sgbefore' = sgtarget
    /\ sgop' = "transferable_subkey_bind"
    /\ nsigns' = nsigns + 1
    /\ UNCHANGED sgkey
    /\ UNCHANGED signFrame

SignNext ==
    \/ UseridCertify
    \/ SubkeyBind

SpecSign == SignInit /\ [][SignNext]_vars

(***************************************************************************)
(* The key store writer.  A key of the store is [pkt, grip, subkey_grips,  *)
(* format, packets]; a raw packet is [raw, length] with raw the bytes (the *)
(* empty sequence: none); the destination is [data, werr] with data the    *)
(* raw packets written so far.                                             *)
(***************************************************************************)
\* every key taken for a primary key
pgp_key_is_key(key) ==
    is_primary_key_pkt(key.pkt.tag) \/ is_subkey_pkt(key.pkt.tag)

pgp_key_is_primary_key(key) == is_primary_key_pkt(key.pkt.tag)

\* nothing is written to a destination that is in error
dst_write(d, pkt) == IF d.werr THEN d ELSE [d EXCEPT !.data = Append(@, pkt.raw)]

RECURSIVE WriteRawPackets(_, _)
WriteRawPackets(pkts, d) ==
    IF pkts = <<>> THEN [ok |-> ~d.werr, dst |-> d]
    ELSE IF Head(pkts).raw = <<>> \/ Head(pkts).length = 0
    THEN [ok |-> FALSE, dst |-> d]
    ELSE WriteRawPackets(Tail(pkts), dst_write(d, Head(pkts)))

rnp_key_write_packets_stream(key, d) ==
    IF Len(key.packets) = 0 THEN [ok |-> FALSE, dst |-> d]
    ELSE WriteRawPackets(key.packets, d)

rnp_key_matches_search(key, search) ==
    search.type = "PGP_KEY_SEARCH_GRIP" /\ key.grip = search.by

\* the first key of the store of the given kind that matches the search,
\* 0 if there is none
FindSubkey(key_store, search, secret) ==
    LET found == {j \in 1 .. Len(key_store) :
                    /\ pgp_key_is_secret(key_store[j]) = secret
                    /\ rnp_key_matches_search(key_store[j], search)}
    IN  IF found = {} THEN 0
        ELSE CHOOSE j \in found : \A k \in found : j <= k

\* the loop of do_write over the subkey grips of a primary key
RECURSIVE DoWriteSubkeys(_, _, _, _)
DoWriteSubkeys(key_store, grips, d, secret) ==
    LET Written(w) ==
          IF ~w.ok THEN w
          ELSE DoWriteSubkeys(key_store, Tail(grips), w.dst, secret)
        Found(subkey) ==
          IF subkey = 0
          THEN DoWriteSubkeys(key_store, Tail(grips), d, secret)
          ELSE Written(rnp_key_write_packets_stream(key_store[subkey], d))
    IN  IF grips = <<>> THEN [ok |-> TRUE, dst |-> d]
        ELSE Found(FindSubkey(key_store,
                              [type |-> "PGP_KEY_SEARCH_GRIP",
                               by |-> Head(grips)], secret))

\* the loop of do_write over the keys of the store, from the i-th on
RECURSIVE DoWriteKeys(_, _, _, _)
DoWriteKeys(key_store, i, d, secret) ==
    LET Subkeys(w) ==
          IF ~w.ok THEN w ELSE DoWriteKeys(key_store, i + 1, w.dst, secret)
        Written(key, w) ==
          IF ~w.ok THEN w
          ELSE Subkeys(DoWriteSubkeys(key_store, key.subkey_grips, w.dst,
                                      secret))
        Key(key) ==
          IF pgp_key_is_secret(key) # secret \/ ~pgp_key_is_primary_key(key)
          THEN DoWriteKeys(key_store, i + 1, d, secret)
          ELSE IF key.format # "PGP_KEY_STORE_GPG"
          THEN [ok |-> FALSE, dst |-> d]
          ELSE Written(key, rnp_key_write_packets_stream(key, d))
    IN  IF i > Len(key_store) THEN [ok |-> TRUE, dst |-> d]
        ELSE Key(key_store[i])

do_write(key_store, d, secret) == DoWriteKeys(key_store, 1, d, secret)

\* the writer with the pass over the secret keys first
rnp_key_store_pgp_write_secret_first(key_store, d) ==
    LET Public(w) == IF ~w.ok THEN w ELSE do_write(key_store, w.dst, FALSE)
    IN  Public(do_write(key_store, d, TRUE))

rnp_key_store_pgp_write_to_dst(key_store, d) ==
    LET Secret(w) == IF ~w.ok THEN w ELSE do_write(key_store, w.dst, TRUE)
    IN  Secret(do_write(key_store, d, FALSE))

(***************************************************************************)
(* The key store specification: a store of at most MaxStoreKeys keys is    *)
(* written.  The i-th key of the store has the raw packets <<i, 1>> and    *)
(* <<i, 2>>.                                                               *)
(***************************************************************************)
MaxStoreKeys == 4

\* the keys by tag, grip and subkey grips: two primary keys, public or
\* secret, and two subkeys, public or secret
KeyShapes ==
    {[tag |-> g, grip |-> i, subkey_grips |-> s] :
       g \in {PGP_PKT_PUBLIC_KEY, PGP_PKT_SECRET_KEY}, i \in {1, 2},
       s \in {<<3>>, <<4, 3>>}}
      \cup {[tag |-> g, grip |-> i, subkey_grips |-> <<>>] :
              g \in {PGP_PKT_PUBLIC_SUBKEY, PGP_PKT_SECRET_SUBKEY},
              i \in {3, 4}}

\* what may be wrong with a key of the store
KeyDefects == {"format", "no packets", "empty packet"}

StoreKey(i, shape, defect) ==
    [pkt |-> [tag |-> shape.tag], grip |-> shape.grip,
     subkey_grips |-> shape.subkey_grips,
     format |-> IF defect = "format" THEN "PGP_KEY_STORE_KBX"
                ELSE "PGP_KEY_STORE_GPG",
     packets |-> IF defect = "no packets" THEN <<>>
                 ELSE <<[raw |-> <<i, 1>>, length |-> 1],
                        IF defect = "empty packet"
                        THEN [raw |-> <<>>, length |-> 0]
                        ELSE [raw |-> <<i, 2>>, length |-> 1]>>]

StoreInit ==
    /\ MergeIdle /\ StreamIdle /\ SecretIdle /\ ValidateIdle /\ KeyIdle
    /\ SignIdle
    /\ \E n \in 0 .. MaxStoreKeys :
         \E shapes \in [1 .. n -> KeyShapes] :
            \/ /\ kstore = [i \in 1 .. n |-> StoreKey(i, shapes[i], "none")]
               /\ sdst = [data |-> <<>>, werr |-> FALSE]
            \/ /\ n < MaxStoreKeys
               /\ kstore = [i \in 1 .. n |-> StoreKey(i, shapes[i], "none")]
               /\ sdst = [data |-> <<>>, werr |-> TRUE]
            \/ /\ n < MaxStoreKeys
               /\ \E k \in 1 .. n, defect \in KeyDefects :
                     kstore = [i \in 1 .. n |->
                                 StoreKey(i, shapes[i],
                                          IF i = k THEN defect ELSE "none")]
               /\ sdst = [data |-> <<>>, werr |-> FALSE]
    /\ sres = FALSE
    /\ tkey = <<>>
    /\ rkey = <<>>
    /\ rres = FALSE
    /\ stop = "init"
    /\ kstore0 = <<>>
    /\ ssrc = <<>>
    /\ sret = "none"
    /\ tfrom = <<>>

\* rnp_key_store_pgp_write_to_dst(key_store, dst)
StoreWrite ==
    /\ stop = "init"
    /\ \E w \in {rnp_key_store_pgp_write_to_dst(kstore, sdst)} :
          /\ sdst' = w.dst
          /\ sres' = w.ok
    /\ stop' = "rnp_key_store_pgp_write_to_dst"
    /\ UNCHANGED <<kstore, tkey, rkey, rres, kstore0, ssrc, sret, tfrom>>
    /\ UNCHANGED storeFrame

StoreNext == StoreWrite

SpecStore == StoreInit /\ [][StoreNext]_vars

(***************************************************************************)
(* The key of the store built from a transferable key.  A signature packet *)
(* is [type, primary_uid, key_flags, key_expiration, revocation_reason],   *)
(* the last three the subpacket in a sequence of length one, or the empty  *)
(* sequence when the signature has none.  env names the call that fails,   *)
(* "none" when none does.                                                  *)
(***************************************************************************)
RichSig(type, primary_uid, revocation_reason) ==
    [type |-> type, primary_uid |-> primary_uid,
     key_flags |-> IF type = "PGP_CERT_POSITIVE" THEN <<3>> ELSE <<>>,
     key_expiration |-> IF primary_uid THEN <<7>> ELSE <<>>,
     revocation_reason |-> revocation_reason]

\* the signature packets by their bytes, a number from 1 on: certifications
\* and direct-key signatures with or without the primary userid flag,
\* revocations of the key and of a certification with a reason with text,
\* with a reason without text and without a reason, a certification that
\* carries a revocation reason, and a subkey binding
RichSigTable ==
    <<RichSig("PGP_CERT_POSITIVE", FALSE, <<>>),
      RichSig("PGP_CERT_POSITIVE", TRUE, <<>>),
      RichSig("PGP_SIG_DIRECT", FALSE, <<>>),
      RichSig("PGP_SIG_DIRECT", TRUE, <<>>),
      RichSig("PGP_SIG_REV_KEY", FALSE, <<>>),
      RichSig("PGP_SIG_REV_KEY", FALSE, <<[code |-> 2, reason |-> ""]>>),
      RichSig("PGP_SIG_REV_KEY", FALSE, <<[code |-> 32, reason |-> "gone"]>>),
      RichSig("PGP_SIG_REV_KEY", FALSE, <<[code |-> 64, reason |-> ""]>>),
      RichSig("PGP_SIG_REV_CERT", FALSE, <<>>),
      RichSig("PGP_SIG_REV_CERT", FALSE, <<[code |-> 2, reason |-> ""]>>),
      RichSig("PGP_SIG_REV_CERT", FALSE, <<[code |-> 32, reason |-> "gone"]>>),
      RichSig("PGP_SIG_REV_CERT", FALSE, <<[code |-> 64, reason |-> ""]>>),
      RichSig("PGP_CERT_POSITIVE", FALSE, <<[code |-> 1, reason |-> ""]>>),
      RichSig("PGP_SIG_SUBKEY", FALSE, <<>>)>>

\* the parsed signature: its type and the subpackets the key build reads
ParsedSignature(n) == RichSigTable[n]

ss_rr_code_map ==
    <<[type |-> 0, string |-> "No reason specified"],
      [type |-> 1, string |-> "Key is superseded"],
      [type |-> 2, string |-> "Key material has been compromised"],
      [type |-> 3, string |-> "Key is retired and no longer used"],
      [type |-> 32, string |-> "User ID information is no longer valid"]>>

pgp_str_from_map(type, map) ==
    LET rows == SelectSeq(map, LAMBDA row : row.type = type)
    IN  IF rows = <<>> THEN "Unknown" ELSE rows[1].string

pgp_key_get_userid_count(key) == Len(key.uids)

\* a number as a 32-bit unsigned value, in two words of 16 bits: -1 is
\* 65535, 65535, which is 4294967295
uint32_t(n) ==
    [hi |-> ((n - (n % 65536)) \div 65536) % 65536, lo |-> n % 65536]

\* a raw packet of a key: the tag and the bytes of the packet as it is
\* written to a stream
pgp_key_add_rawpacket(key, packet) ==
    [key EXCEPT !.packets =
                   Append(@, [tag |-> packet.tag, raw |-> <<packet>>,
                              length |-> 1])]

\* the grip is computed from the public key material
rnp_key_store_get_key_grip(pkt) == pkt.pub

\* the key after memset and create_key_from_pkt
create_key_from_pkt(pkt) ==
    [pkt |-> pkt,
     packets |-> <<[tag |-> pkt.tag, raw |-> <<stream_write_key(pkt).val>>,
                    length |-> 1]>>,
     grip |-> rnp_key_store_get_key_grip(pkt), primary_grip |-> <<>>,
     subkey_grips |-> <<>>, uids |-> <<>>, subsigs |-> <<>>,
     revokes |-> <<>>, revoked |-> 0,
     revocation |-> [uid |-> uint32_t(0), code |-> 0, reason |-> ""],
     uid0 |-> uint32_t(0), uid0_set |-> 0, expiration |-> 0, key_flags |-> 0,
     format |-> "PGP_KEY_STORE_GPG"]

\* the lists of the key are destroyed, its other fields stay
pgp_key_free_data(key) ==
    [key EXCEPT !.uids = <<>>, !.packets = <<>>, !.subsigs = <<>>,
                !.revokes = <<>>, !.revocation.reason = "",
                !.primary_grip = <<>>, !.subkey_grips = <<>>]

rnp_key_add_signature(key, signature, env) ==
    LET sig == ParsedSignature(signature)
        count == pgp_key_get_userid_count(key)
        \* subsig->uid, revocation->uid and key->uid0 are 32 bits wide
        uid == uint32_t(count - 1)
        subsig == [uid |-> uid, sig |-> signature]
        added == [pgp_key_add_rawpacket(pgp_key_add_subsig(key, subsig),
                                        stream_write_signature(signature))
                    EXCEPT !.expiration = IF sig.key_expiration # <<>>
                                          THEN sig.key_expiration[1] ELSE @,
                           !.uid0 = IF sig.primary_uid THEN uid ELSE @,
                           !.uid0_set = IF sig.primary_uid THEN 1 ELSE @,
                           !.key_flags = IF sig.key_flags # <<>>
                                         THEN sig.key_flags[1] ELSE @]
        reason(rr) == IF rr.reason = ""
                      THEN pgp_str_from_map(rr.code, ss_rr_code_map)
                      ELSE rr.reason
        revocation(rr) == [uid |-> uid, code |-> rr.code, reason |-> reason(rr)]
    IN  IF env = "pgp_key_add_subsig" THEN [ok |-> FALSE, key |-> key]
        ELSE IF env = "pgp_key_add_sig_rawpacket"
        THEN [ok |-> FALSE,
              key |-> pgp_key_add_subsig(key,
                                         [uid |-> uint32_t(0), sig |-> 0])]
        ELSE IF sig.revocation_reason = <<>> THEN [ok |-> TRUE, key |-> added]
        ELSE IF count = 0
        THEN [ok |-> TRUE,
              key |-> [added EXCEPT
                         !.revoked = 1,
                         !.revocation =
                            [revocation(sig.revocation_reason[1])
                               EXCEPT !.uid = key.revocation.uid]]]
        ELSE IF env = "pgp_key_add_revoke" THEN [ok |-> FALSE, key |-> added]
        ELSE [ok |-> TRUE,
              key |-> [added EXCEPT
                         !.revokes =
                            Append(@, revocation(sig.revocation_reason[1]))]]

RECURSIVE rnp_key_add_signatures(_, _, _)
rnp_key_add_signatures(key, signatures, env) ==
    LET Added(r) ==
          IF ~r.ok THEN r
          ELSE rnp_key_add_signatures(r.key, Tail(signatures), env)
    IN  IF signatures = <<>> THEN [ok |-> TRUE, key |-> key]
        ELSE Added(rnp_key_add_signature(key, Head(signatures), env))

rnp_key_add_transferable_userid(key, uid, env) ==
    LET str == IF uid.uid.tag = PGP_PKT_USER_ID THEN <<"uid", uid.uid.uid>>
               ELSE "(photo)"
        packet == pgp_key_add_rawpacket(key, stream_write_userid(uid.uid))
    IN  IF env = "pgp_key_add_uid_rawpacket" THEN [ok |-> FALSE, key |-> key]
        ELSE IF env = "pgp_key_add_userid" THEN [ok |-> FALSE, key |-> packet]
        ELSE rnp_key_add_signatures(
               [packet EXCEPT !.uids = Append(@, [str |-> str, pkt |-> uid.uid])],
               uid.signatures, env)

\* the loop of rnp_key_from_transferable_key over the userids
RECURSIVE AddTransferableUserids(_, _, _)
AddTransferableUserids(key, userids, env) ==
    LET Added(r) ==
          IF ~r.ok THEN r
          ELSE AddTransferableUserids(r.key, Tail(userids), env)
    IN  IF userids = <<>> THEN [ok |-> TRUE, key |-> key]
        ELSE Added(rnp_key_add_transferable_userid(key, Head(userids), env))

rnp_key_from_transferable_key(tk, env) ==
    LET Freed(r) ==
          IF r.ok THEN r ELSE [ok |-> FALSE, key |-> pgp_key_free_data(r.key)]
        Direct(r) ==
          IF ~r.ok THEN Freed(r)
          ELSE Freed(AddTransferableUserids(r.key, tk.userids, env))
    IN  IF env = "create_key_from_pkt" THEN [ok |-> FALSE, key |-> <<>>]
        ELSE Direct(rnp_key_add_signatures(create_key_from_pkt(tk.key),
                                           tk.signatures, env))

(***************************************************************************)
(* The key store reader.  The key store is the sequence of its keys; a key *)
(* of the store is known to its callers by its place in it, 0 for the null *)
(* pointer.  fuel counts the allocations that succeed, in the parser and   *)
(* in the store, and env names the call of the key build that fails.       *)
(***************************************************************************)
pgp_key_get_grip(key) == key.grip

pgp_key_set_primary_grip(key, grip) == [key EXCEPT !.primary_grip = <<grip>>]

pgp_key_add_subkey_grip(key, grip) ==
    IF \E i \in 1 .. Len(key.subkey_grips) : key.subkey_grips[i] = grip
    THEN key
    ELSE [key EXCEPT !.subkey_grips = Append(@, grip)]

\* list_append is not reached when the grip is in the list already
pgp_key_link_subkey_grip(key, subkey, fuel) ==
    LET linked == pgp_key_set_primary_grip(subkey, pgp_key_get_grip(key))
        listed == \E i \in 1 .. Len(key.subkey_grips) :
                     key.subkey_grips[i] = pgp_key_get_grip(subkey)
    IN  IF ~CanAlloc(fuel)
        THEN [ok |-> FALSE, key |-> key, subkey |-> subkey, fuel |-> fuel]
        ELSE IF ~listed /\ ~CanAlloc(Spend(fuel))
        THEN [ok |-> FALSE, key |-> key, subkey |-> linked,
              fuel |-> Spend(fuel)]
        ELSE [ok |-> TRUE,
              key |-> pgp_key_add_subkey_grip(key, pgp_key_get_grip(subkey)),
              subkey |-> linked,
              fuel |-> IF listed THEN Spend(fuel) ELSE Spend(Spend(fuel))]

\* primary is the empty sequence for the null pointer, else the primary key
\* in a sequence of length one
rnp_key_from_transferable_subkey(tskey, primary, fuel, env) ==
    LET Failed(r) ==
          [ok |-> FALSE, subkey |-> pgp_key_free_data(r.key),
           primary |-> primary, fuel |-> fuel]
        Linked(l) ==
          IF ~l.ok
          THEN [ok |-> FALSE, subkey |-> pgp_key_free_data(l.subkey),
                primary |-> <<l.key>>, fuel |-> l.fuel]
          ELSE [ok |-> TRUE, subkey |-> l.subkey, primary |-> <<l.key>>,
                fuel |-> l.fuel]
        Signed(r) ==
          IF ~r.ok THEN Failed(r)
          ELSE IF primary = <<>>
          THEN [ok |-> TRUE, subkey |-> r.key, primary |-> primary,
                fuel |-> fuel]
          ELSE Linked(pgp_key_link_subkey_grip(primary[1], r.key, fuel))
    IN  IF env = "create_key_from_pkt"
        THEN [ok |-> FALSE, subkey |-> <<>>, primary |-> primary,
              fuel |-> fuel]
        ELSE Signed(rnp_key_add_signatures(create_key_from_pkt(tskey.subkey),
                                           tskey.signatures, env))

\* the key is put at the end of the store
rnp_key_store_add_key(keyring, key, fuel) ==
    IF ~CanAlloc(fuel) THEN [key |-> 0, keyring |-> keyring, fuel |-> fuel]
    ELSE [key |-> Len(keyring) + 1, keyring |-> Append(keyring, key),
          fuel |-> Spend(fuel)]

rnp_key_store_remove_key(keyring, key) ==
    SubSeq(keyring, 1, key - 1) \o SubSeq(keyring, key + 1, Len(keyring))

rnp_key_store_add_transferable_subkey(keyring, tskey, pkey, fuel, env) ==
    LET Store(a) ==
          [ok |-> a.key # 0, keyring |-> a.keyring, fuel |-> a.fuel]
        WithPrimary(r) ==
          IF pkey = 0 THEN keyring ELSE [keyring EXCEPT ![pkey] = r.primary[1]]
        Created(r) ==
          IF ~r.ok
          THEN [ok |-> FALSE, keyring |-> WithPrimary(r), fuel |-> r.fuel]
          ELSE Store(rnp_key_store_add_key(WithPrimary(r), r.subkey,
                                           r.fuel))
    IN  Created(rnp_key_from_transferable_subkey(
                  tskey, IF pkey = 0 THEN <<>> ELSE <<keyring[pkey]>>,
                  fuel, env))

\* the loop of rnp_key_store_add_transferable_key over the subkeys
RECURSIVE AddTransferableSubkeys(_, _, _, _, _)
AddTransferableSubkeys(keyring, subkeys, addkey, fuel, env) ==
    LET Added(r) ==
          IF ~r.ok THEN r
          ELSE AddTransferableSubkeys(r.keyring, Tail(subkeys), addkey,
                                      r.fuel, env)
    IN  IF subkeys = <<>>
        THEN [ok |-> TRUE, keyring |-> keyring, fuel |-> fuel]
        ELSE Added(rnp_key_store_add_transferable_subkey(
                     keyring, Head(subkeys), addkey, fuel, env))

rnp_key_store_add_transferable_key(keyring, tk, fuel, env) ==
    LET Subkeys(addkey, r) ==
          IF r.ok THEN r
          ELSE [r EXCEPT
                  !.keyring = rnp_key_store_remove_key(r.keyring, addkey)]
        Stored(a) ==
          IF a.key = 0
          THEN [ok |-> FALSE, keyring |-> keyring, fuel |-> a.fuel]
          ELSE Subkeys(a.key,
                       AddTransferableSubkeys(a.keyring, tk.subkeys, a.key,
                                              a.fuel, env))
        Created(r) ==
          IF ~r.ok THEN [ok |-> FALSE, keyring |-> keyring, fuel |-> fuel]
          ELSE Stored(rnp_key_store_add_key(keyring, r.key, fuel))
    IN  Created(rnp_key_from_transferable_key(tk, env))

\* the loop of rnp_key_store_pgp_read_from_src over the keys read
RECURSIVE AddTransferableKeys(_, _, _, _)
AddTransferableKeys(keyring, keys, fuel, env) ==
    LET Added(r) ==
          IF ~r.ok THEN [ret |-> "RNP_ERROR_BAD_STATE", keyring |-> r.keyring]
          ELSE AddTransferableKeys(r.keyring, Tail(keys), r.fuel, env)
    IN  IF keys = <<>> THEN [ret |-> "RNP_SUCCESS", keyring |-> keyring]
        ELSE Added(rnp_key_store_add_transferable_key(
                     keyring, Head(keys), fuel, env))

rnp_key_store_pgp_read_from_src(keyring, s, fuel, env) ==
    LET Subkey(a) ==
          [ret |-> IF a.ok THEN "RNP_SUCCESS" ELSE "RNP_ERROR_BAD_STATE",
           keyring |-> a.keyring]
        SubkeyRead(r) ==
          IF r.ret # "RNP_SUCCESS" THEN [ret |-> r.ret, keyring |-> keyring]
          ELSE Subkey(rnp_key_store_add_transferable_subkey(
                        keyring, r.val, 0, r.fuel, env))
        KeysRead(r) ==
          IF r.ret # "RNP_SUCCESS" THEN [ret |-> r.ret, keyring |-> keyring]
          ELSE AddTransferableKeys(keyring, r.val, r.fuel, env)
    IN  IF is_subkey_pkt(stream_pkt_type(s))
        THEN SubkeyRead(process_pgp_subkey(s, fuel))
        ELSE KeysRead(process_pgp_keys(s, fuel))

\* the key packet alone as a source
rnp_key_to_src_key_packet(key) ==
    IF Len(key.packets) = 0 THEN [ok |-> FALSE, src |-> <<>>]
    ELSE [ok |-> TRUE, src |-> <<key.packets[1].raw[1]>>]

\* the raw packets of the key, written to a memory destination, as a source
rnp_key_to_src(key) ==
    LET Written(w) ==
          [ok |-> w.ok,
           src |-> [i \in 1 .. Len(w.dst.data) |-> w.dst.data[i][1]]]
    IN  Written(rnp_key_write_packets_stream(
                  key, [data |-> <<>>, werr |-> FALSE]))

transferable_key_from_key(key, fuel) ==
    LET Source(s) ==
          IF ~s.ok THEN [ret |-> "RNP_ERROR_BAD_STATE"]
          ELSE process_pgp_key(s.src, fuel)
    IN  Source(rnp_key_to_src(key))

(***************************************************************************)
(* The key build specification: a transferable key of at most MaxRichSigs  *)
(* signatures on the key and on at most MaxRichUids userids is built into  *)
(* a key of the store.                                                     *)
(***************************************************************************)
MaxRichSigs == 3

MaxRichUids == 2

\* the signatures of a primary key
RichSigs ==
    {n \in 1 .. Len(RichSigTable) :
       ParsedSignature(n).type # "PGP_SIG_SUBKEY"}

RichEnvs ==
    {"none", "create_key_from_pkt", "pgp_key_add_subsig",
     "pgp_key_add_sig_rawpacket", "pgp_key_add_revoke",
     "pgp_key_add_uid_rawpacket", "pgp_key_add_userid"}

\* the signatures that are laid on place k, in their order
SigsAt(sigs, place, k) ==
    LET at == SelectSeq([i \in 1 .. Len(sigs) |-> <<place[i], sigs[i]>>],
                        LAMBDA x : x[1] = k)
    IN  [i \in 1 .. Len(at) |-> at[i][2]]

\* the n signatures are laid on the key (place 0) and on the userids in
\* the order of the places
RichInit ==
    /\ MergeIdle /\ StreamIdle /\ SecretIdle /\ ValidateIdle /\ KeyIdle
    /\ SignIdle
    /\ \E n \in 0 .. MaxRichSigs, u \in 0 .. MaxRichUids :
         \E sigs \in [1 .. n -> RichSigs], place \in [1 .. n -> 0 .. u] :
            /\ \A i \in 1 .. n - 1 : place[i] <= place[i + 1]
            /\ tkey =
                 [key |-> [tag |-> PGP_PKT_PUBLIC_KEY, pub |-> 1, sec |-> 0],
                  signatures |-> SigsAt(sigs, place, 0),
                  userids |->
                    [k \in 1 .. u |->
                       [uid |-> [tag |-> IF k = 2 THEN PGP_PKT_USER_ATTR
                                         ELSE PGP_PKT_USER_ID,
                                 uid |-> k],
                        signatures |-> SigsAt(sigs, place, k)]],
                  subkeys |-> <<>>]
    /\ kstore = <<>>
    /\ sdst = <<>>
    /\ sres = FALSE
    /\ rkey = <<>>
    /\ rres = FALSE
    /\ stop = "init"
    /\ kstore0 = <<>>
    /\ ssrc = <<>>
    /\ sret = "none"
    /\ tfrom = <<>>

\* rnp_key_from_transferable_key(key, tkey)
RichBuild ==
    /\ stop = "init"
    /\ \E env \in RichEnvs :
         \E r \in {rnp_key_from_transferable_key(tkey, env)} :
            /\ rkey' = r.key
            /\ rres' = r.ok
    /\ stop' = "rnp_key_from_transferable_key"
    /\ UNCHANGED <<kstore, sdst, sres, tkey, kstore0, ssrc, sret, tfrom>>
    /\ UNCHANGED storeFrame

\* transferable_key_from_key(dst, key) of the key that was built
RichExport ==
    /\ stop = "rnp_key_from_transferable_key"
    /\ rres
    /\ \E fuel \in {-1, 0, 1, 2} :
         \E r \in {transferable_key_from_key(rkey, fuel)} :
            /\ sret' = r.ret
            /\ tfrom' = IF r.ret = "RNP_SUCCESS" THEN r.val ELSE <<>>
    /\ stop' = "transferable_key_from_key"
    /\ UNCHANGED <<kstore, sdst, sres, tkey, rkey, rres, kstore0, ssrc>>
    /\ UNCHANGED storeFrame

RichNext == RichBuild \/ RichExport

SpecRich == RichInit /\ [][RichNext]_vars

(***************************************************************************)
(* The key store specification: sources are read into a store that starts  *)
(* empty, transferable keys are added to it, and it is written.  The       *)
(* primary keys have the grips 1 and 2, the subkeys the grips 3 and 4.     *)
(***************************************************************************)
MaxRingKeys == 3

MaxRingFuel == 7

RingPrimary(grip) == [tag |-> PGP_PKT_PUBLIC_KEY, pub |-> grip, sec |-> 0]

RingSubkey(grip) == [tag |-> PGP_PKT_PUBLIC_SUBKEY, pub |-> grip, sec |-> 0]

RingUserid == [tag |-> PGP_PKT_USER_ID, uid |-> 1]

RingBinding == stream_write_signature(14)

RingCert == stream_write_signature(2)

RingTrust == [tag |-> PGP_PKT_TRUST]

RingBadSig == [tag |-> PGP_PKT_SIGNATURE, sig |-> 0]

\* sources that start with a subkey packet
SubkeySources ==
    {<<RingSubkey(3)>>,
     <<RingSubkey(3), RingBinding>>,
     <<RingSubkey(4), RingTrust, RingBinding, RingBinding>>,
     <<RingSubkey(4), RingBinding, RingPrimary(1), RingUserid>>,
     <<RingSubkey(3), RingBadSig>>}

\* sources that start with a primary key packet
PrimarySources ==
    {<<RingPrimary(1), RingUserid, RingCert>>,
     <<RingPrimary(1), RingUserid, RingSubkey(3), RingBinding>>,
     <<RingPrimary(2), RingCert, RingSubkey(3), RingBinding,
       RingSubkey(4), RingBinding>>,
     <<RingPrimary(1), RingPrimary(2), RingSubkey(4), RingBinding>>,
     <<RingPrimary(2), RingUserid, RingBadSig>>}

RingSources == SubkeySources \cup PrimarySources \cup {<<>>}

\* the transferable keys of the first four primary sources
RingKeys ==
    {process_pgp_key(s, -1).val :
       s \in {x \in PrimarySources : process_pgp_key(x, -1).ret = "RNP_SUCCESS"}}

RingFuels == {-1} \cup 0 .. MaxRingFuel

RingEnvs == {"none", "create_key_from_pkt", "pgp_key_add_subsig"}

RingInit ==
    /\ MergeIdle /\ StreamIdle /\ SecretIdle /\ ValidateIdle /\ KeyIdle
    /\ SignIdle
    /\ kstore = <<>>
    /\ sdst = [data |-> <<>>, werr |-> FALSE]
    /\ sres = FALSE
    /\ tkey = <<>>
    /\ rkey = <<>>
    /\ rres = FALSE
    /\ stop = "init"
    /\ kstore0 = <<>>
    /\ ssrc = <<>>
    /\ sret = "none"
    /\ tfrom = <<>>

\* rnp_key_store_pgp_read_from_src(keyring, src)
RingRead ==
    /\ Len(kstore) < MaxRingKeys
    /\ \E s \in RingSources, fuel \in RingFuels, env \in RingEnvs :
         \E r \in {rnp_key_store_pgp_read_from_src(kstore, s, fuel, env)} :
            /\ kstore' = r.keyring
            /\ sret' = r.ret
            /\ ssrc' = s
    /\ kstore0' = kstore
    /\ tkey' = <<>>
    /\ sdst' = [data |-> <<>>, werr |-> FALSE]
    /\ sres' = FALSE
    /\ stop' = "rnp_key_store_pgp_read_from_src"
    /\ UNCHANGED <<rkey, rres, tfrom>>
    /\ UNCHANGED storeFrame

\* rnp_key_store_add_transferable_key(keyring, tkey)
RingAdd ==
    /\ Len(kstore) < MaxRingKeys
    /\ \E tk \in RingKeys, fuel \in RingFuels, env \in RingEnvs :
         \E r \in {rnp_key_store_add_transferable_key(kstore, tk, fuel, env)} :
            /\ kstore' = r.keyring
            /\ sret' = IF r.ok THEN "true" ELSE "false"
            /\ tkey' = tk
    /\ kstore0' = kstore
    /\ ssrc' = <<>>
    /\ sdst' = [data |-> <<>>, werr |-> FALSE]
    /\ sres' = FALSE
    /\ stop' = "rnp_key_store_add_transferable_key"
    /\ UNCHANGED <<rkey, rres, tfrom>>
    /\ UNCHANGED storeFrame

\* rnp_key_store_pgp_write_to_dst(key_store, dst) after a read or an add
RingWrite ==
    /\ stop \in {"rnp_key_store_pgp_read_from_src",
                 "rnp_key_store_add_transferable_key"}
    /\ \E w \in {rnp_key_store_pgp_write_to_dst(kstore, sdst)} :
          /\ sdst' = w.dst
          /\ sres' = w.ok
    /\ stop' = "rnp_key_store_pgp_write_to_dst"
    /\ UNCHANGED <<kstore, tkey, rkey, rres, kstore0, ssrc, sret, tfrom>>
    /\ UNCHANGED storeFrame

RingNext == RingRead \/ RingAdd \/ RingWrite

SpecRing == RingInit /\ [][RingNext]_vars

(***************************************************************************)
(* What the merge operations are expected to do, stated on lists without   *)
(* reference to the loops above.                                           *)
(***************************************************************************)
\* the items of s at the positions of idx, in the order of s
Pick(s, idx) ==
    [k \in 1 .. Cardinality(idx) |->
        s[CHOOSE j \in idx : Cardinality({i \in idx : i < j}) = k - 1]]

\* the positions of s whose item equals, under Eq, no item of d and no
\* earlier item of s
NewIn(d, s, Eq(_, _)) ==
    {j \in 1 .. Len(s) :
        /\ \A i \in 1 .. Len(d) : ~Eq(d[i], s[j])
        /\ \A i \in 1 .. j - 1 : ~Eq(s[i], s[j])}

SameSignature(a, b) == a = b

SameUserid(a, b) == a.uid = b.uid

SamePublicKey(a, b) == a.subkey.pub = b.subkey.pub

NoDuplicates(sigs) ==
    \A i, j \in 1 .. Len(sigs) : i # j => sigs[i] # sigs[j]


\* C6: after a successful merge_signatures, dst is its original list
\* followed by the signatures of src that equal no signature of the original
\* list and no earlier signature of src, in the order of src; src is unchanged
C6_MergeSignatures ==
    (op = "merge_signatures" /\ ret = "RNP_SUCCESS") =>
        /\ dst = dst0 \o Pick(src0, NewIn(dst0, src0, SameSignature))
        /\ src = src0

\* a successful merge_signatures whose src repeats a signature dst did not
\* have, and holds one dst had
C6_Witness ==
    /\ op = "merge_signatures"
    /\ ret = "RNP_SUCCESS"
    /\ \E i, j \in 1 .. Len(src0) :
          i < j /\ src0[i] = src0[j] /\ ~list_has_signature(dst0, src0[j])
    /\ Len(dst) = Len(dst0) + 1

\* C7: transferable_key_merge is idempotent: a successful merge of a key
\* into itself leaves it as it was, and so does a second successful merge
\* of src into the result of a successful merge
C7_MergeIdempotent ==
    (op \in {"merge_self", "merge_again"} /\ ret = "RNP_SUCCESS") =>
        dst = dst0

\* the second half of C7 alone
C7_MergeAgainNoop ==
    (op = "merge_again" /\ ret = "RNP_SUCCESS") => dst = dst0

\* C8: after a successful transferable_key_merge no signature list of dst
\* holds two equal signatures
C8_NoDuplicateSignatures ==
    (op \in {"transferable_key_merge", "merge_self", "merge_again"}
       /\ ret = "RNP_SUCCESS") =>
        /\ NoDuplicates(dst.signatures)
        /\ \A i \in 1 .. Len(dst.userids) :
              NoDuplicates(dst.userids[i].signatures)
        /\ \A i \in 1 .. Len(dst.subkeys) :
              NoDuplicates(dst.subkeys[i].signatures)

\* C9: a successful transferable_key_merge keeps the primary key packet and
\* the userid and subkey packets dst had, in their places, and puts after
\* them the userid and subkey packets of src that had no equal in dst, in
\* the order of src
C9_MergeAppendOnly ==
    (op = "transferable_key_merge" /\ ret = "RNP_SUCCESS") =>
        /\ dst.key = dst0.key
        /\ [i \in 1 .. Len(dst.userids) |-> dst.userids[i].uid]
             = [i \in 1 .. Len(dst0.userids) |-> dst0.userids[i].uid]
                 \o [i \in 1 .. Cardinality(NewIn(dst0.userids, src0.userids,
                                                  SameUserid)) |->
                       Pick(src0.userids,
                            NewIn(dst0.userids, src0.userids,
                                  SameUserid))[i].uid]
        /\ [i \in 1 .. Len(dst.subkeys) |-> dst.subkeys[i].subkey]
             = [i \in 1 .. Len(dst0.subkeys) |-> dst0.subkeys[i].subkey]
                 \o [i \in 1 .. Cardinality(NewIn(dst0.subkeys, src0.subkeys,
                                                  SamePublicKey)) |->
                       Pick(src0.subkeys,
                            NewIn(dst0.subkeys, src0.subkeys,
                                  SamePublicKey))[i].subkey]

\* a successful merge in which a subkey of src matches a subkey of dst that
\* differs in its secret part, and another subkey of src is new
C9_Witness ==
    /\ op = "transferable_key_merge"
    /\ ret = "RNP_SUCCESS"
    /\ \E i \in 1 .. Len(dst0.subkeys), j \in 1 .. Len(src0.subkeys) :
          /\ dst0.subkeys[i].subkey.pub = src0.subkeys[j].subkey.pub
          /\ dst0.subkeys[i].subkey.sec # src0.subkeys[j].subkey.sec
    /\ Len(dst.subkeys) > Len(dst0.subkeys)

\* C10: a merge of two keys, two subkeys or two userids whose packets are
\* not equal (keys on their public part) returns BadParameters and leaves
\* dst as it was
C10_MergeBadParameters ==
    /\ (op = "transferable_key_merge" /\ dst0.key.pub # src0.key.pub) =>
          (ret = "RNP_ERROR_BAD_PARAMETERS" /\ dst = dst0)
    /\ (op = "transferable_subkey_merge"
          /\ dst0.subkey.pub # src0.subkey.pub) =>
          (ret = "RNP_ERROR_BAD_PARAMETERS" /\ dst = dst0)
    /\ (op = "transferable_userid_merge" /\ dst0.uid # src0.uid) =>
          (ret = "RNP_ERROR_BAD_PARAMETERS" /\ dst = dst0)

\* a userid merge of unequal userid packets whose src has a signature dst
\* has not
C10_Witness ==
    /\ op = "transferable_userid_merge"
    /\ dst0.uid # src0.uid
    /\ \E j \in 1 .. Len(src0.signatures) :
          ~list_has_signature(dst0.signatures, src0.signatures[j])
    /\ ret = "RNP_ERROR_BAD_PARAMETERS"

\* C1: process_pgp_keys on what write_pgp_keys wrote for a well-formed key
\* sequence, armored or not, succeeds (unless memory runs out) and builds a
\* sequence equal to the one written
C1_ParseWriteRoundTrip ==
    /\ sop = "write_pgp_keys" => wret = "RNP_SUCCESS"
    /\ (sop = "process_pgp_keys" /\ pret # "RNP_ERROR_OUT_OF_MEMORY") =>
          (pret = "RNP_SUCCESS" /\ parsed = wkeys)

\* two keys, written armored and parsed, with a signed userid and a subkey
C1_Witness ==
    /\ sop = "process_pgp_keys"
    /\ pret = "RNP_SUCCESS"
    /\ warmor
    /\ Len(wkeys) = 2
    /\ \E i \in 1 .. 2 :
          /\ wkeys[i].userids # <<>>
          /\ wkeys[i].userids[1].signatures # <<>>
    /\ \E i \in 1 .. 2 : wkeys[i].subkeys # <<>>

\* the key can be protected: a v4 secret key packet of a known algorithm
\* with its secret fields in the clear and a supported protection setting
Protectable(key) ==
    /\ is_secret_key_pkt(key.tag)
    /\ key.version = PGP_V4
    /\ key.material.secret
    /\ SecretMpis(key.alg) > 0
    /\ \/ key.sec_protection.s2k.usage = "PGP_S2KU_NONE"
       \/ /\ key.sec_protection.cipher_mode = "PGP_CIPHER_MODE_CFB"
          /\ key.sec_protection.symm_alg = "PGP_SA_AES_128"

\* C2: encrypt_secret_key on a v4 secret key packet with its secret
\* material present and a supported protection setting succeeds when no
\* step fails for a reason outside the key, and decrypt_secret_key with the
\* same password on what it stored succeeds, restores the original secret
\* MPIs and sets secret, with the public fields unchanged
C2_EncryptDecryptRoundTrip ==
    /\ (kop = "encrypt_secret_key" /\ Protectable(kbefore) /\ kenv = "none")
          => kret = "RNP_SUCCESS"
    /\ (/\ kop = "decrypt_secret_key"
        /\ Protectable(seckey0)
        /\ encret = "RNP_SUCCESS"
        /\ intact
        /\ kpw = encpw
        /\ kenv = "none")
          => /\ kret = "RNP_SUCCESS"
             /\ seckey.material.mpis = seckey0.material.mpis
             /\ seckey.material.secret
             /\ seckey.pub = seckey0.pub
             /\ seckey.tag = seckey0.tag
             /\ seckey.version = seckey0.version
             /\ seckey.alg = seckey0.alg

\* an RSA key with a salted, hashed protection was encrypted, its secret
\* fields were zeroed, and the same password decrypted it
C2_Witness ==
    /\ kop = "decrypt_secret_key"
    /\ kret = "RNP_SUCCESS"
    /\ encret = "RNP_SUCCESS"
    /\ intact
    /\ kpw = encpw
    /\ is_rsa_key_alg(seckey0.alg)
    /\ seckey0.sec_protection.s2k.usage = "PGP_S2KU_ENCRYPTED_AND_HASHED"
    /\ seckey0.sec_protection.s2k.specifier = "PGP_S2KS_SALTED"
    /\ ~kbefore.material.secret
    /\ kbefore.material.mpis # seckey0.material.mpis
    /\ seckey.material.mpis = seckey0.material.mpis

TrailerSize(usage) ==
    IF usage = "PGP_S2KU_ENCRYPTED_AND_HASHED" THEN PGP_SHA1_HASH_SIZE ELSE 2

\* the trailer of data is the SHA-1 hash, or the sum16, of what precedes it
TrailerMatches(usage, data) ==
    LET n == Len(data) - TrailerSize(usage)
    IN  SubSeq(data, n + 1, Len(data)) =
          IF usage = "PGP_S2KU_ENCRYPTED_AND_HASHED"
          THEN pgp_hash_sha1(SubSeq(data, 1, n))
          ELSE write_uint16(sum16(SubSeq(data, 1, n)))

\* the check of the trailer was made: the cleartext, or decrypted, bytes
\* hold a trailer and the hash was available
TrailerChecked ==
    /\ kop = "decrypt_secret_key"
    /\ Len(kdec) >= TrailerSize(kbefore.sec_protection.s2k.usage)
    /\ ~(/\ kbefore.sec_protection.s2k.usage = "PGP_S2KU_ENCRYPTED_AND_HASHED"
         /\ kenv = "hash")

SelfCertification(key, sig) ==
    /\ sig.type \in {"PGP_CERT_GENERIC", "PGP_CERT_PERSONA",
                     "PGP_CERT_CASUAL", "PGP_CERT_POSITIVE"}
    /\ IF sig.keyfp > 0 THEN sig.keyfp = key.fp
       ELSE sig.keyid > 0 /\ sig.keyid = key.keyid

HasVerifiedSignature(key, type) ==
    \E i \in 1 .. Len(key.subsigs) :
       key.subsigs[i].type = type /\ key.subsigs[i].valid

HasSelfCertification(key) ==
    \E i \in 1 .. Len(key.subsigs) :
       /\ SelfCertification(key, key.subsigs[i])
       /\ key.subsigs[i].uid \in 1 .. key.uids
       /\ key.subsigs[i].valid
       /\ ~key.subsigs[i].expired

HasBinding(key) ==
    \E i \in 1 .. Len(key.subsigs) :
       /\ key.subsigs[i].type = "PGP_SIG_SUBKEY"
       /\ key.subsigs[i].valid
       /\ ~key.subsigs[i].expired

\* the key with its signatures stored in another order
Reordered(key, perm) ==
    [key EXCEPT !.subsigs = [i \in 1 .. Len(key.subsigs) |->
                               key.subsigs[perm[i]]]]

\* C4: after pgp_key_validate on a primary key, valid holds iff no key
\* revocation signature verifies, expired or not, and the key has a
\* self-certification over one of its userids that verifies and is not
\* expired, or is a secret key; storing the signatures in another order
\* gives the same valid
C4_ValidatePrimary ==
    (vkey # 0 /\ ~ring0[vkey].subkey) =>
       /\ vret = "RNP_SUCCESS"
       /\ ring[vkey].valid <=>
            /\ ~HasVerifiedSignature(ring0[vkey], "PGP_SIG_REV_KEY")
            /\ HasSelfCertification(ring0[vkey]) \/ ring0[vkey].secret
       /\ \A perm \in Permutations(1 .. Len(ring0[vkey].subsigs)) :
             pgp_key_validate_primary(Reordered(ring0[vkey], perm)).valid
               = ring[vkey].valid

\* a public primary key whose first self-certification does not verify and
\* whose second one does is valid, with a revocation that does not verify
C4_Witness ==
    /\ vkey = 1
    /\ ~ring0[1].secret
    /\ ring[1].valid
    /\ Len(ring0[1].subsigs) = 3
    /\ \E i, j, k \in 1 .. 3 :
          /\ i < j
          /\ SelfCertification(ring0[1], ring0[1].subsigs[i])
          /\ ~ring0[1].subsigs[i].valid
          /\ SelfCertification(ring0[1], ring0[1].subsigs[j])
          /\ ring0[1].subsigs[j].valid
          /\ ring0[1].subsigs[k].type = "PGP_SIG_REV_KEY"

\* C5: after pgp_key_validate on a subkey whose primary key is in the key
\* store, valid holds iff the primary key's valid flag is set, no subkey
\* revocation signature verifies, and the subkey has a binding signature
\* that verifies and is not expired, or both keys are secret keys
C5_ValidateSubkey ==
    (/\ vkey # 0
     /\ ring0[vkey].subkey
     /\ \E p \in 1 .. Len(ring0) : ring0[p].grip = ring0[vkey].primary_grip)
      =>
       LET primary == ring0[CHOOSE p \in 1 .. Len(ring0) :
                              ring0[p].grip = ring0[vkey].primary_grip]
       IN  /\ vret = "RNP_SUCCESS"
           /\ ring[vkey].valid <=>
                /\ primary.valid
                /\ ~HasVerifiedSignature(ring0[vkey], "PGP_SIG_REV_SUBKEY")
                /\ \/ HasBinding(ring0[vkey])
                   \/ primary.secret /\ ring0[vkey].secret

\* a public subkey of a valid primary key is valid by its second binding
\* signature, the first one being expired
C5_Witness ==
    /\ vkey = 2
    /\ vret = "RNP_SUCCESS"
    /\ ring[2].valid
    /\ ~ring0[2].secret
    /\ Len(ring0[2].subsigs) >= 2
    /\ ring0[2].subsigs[1].type = "PGP_SIG_SUBKEY"
    /\ ring0[2].subsigs[1].expired
    /\ ring0[2].subsigs[2].type = "PGP_SIG_SUBKEY"
    /\ ~ring0[2].subsigs[2].expired

\* C11: a successful public-only transferable_key_copy yields a key whose
\* primary key and subkeys have the public tags and no secret material,
\* with the userids, the direct-key signatures, the subkeys and their
\* signatures of src in the same order; the public-only copy of that key
\* equals it
C11_CopyPubonly ==
    /\ (op = "transferable_key_copy_pubonly" /\ ret = "true") =>
          /\ is_public_key_pkt(dst.key.tag)
          /\ is_primary_key_pkt(dst.key.tag)
          /\ dst.key.sec = 0
          /\ dst.key.pub = src0.key.pub
          /\ dst.signatures = src0.signatures
          /\ dst.userids = src0.userids
          /\ Len(dst.subkeys) = Len(src0.subkeys)
          /\ \A i \in 1 .. Len(dst.subkeys) :
                /\ dst.subkeys[i].subkey.tag = PGP_PKT_PUBLIC_SUBKEY
                /\ dst.subkeys[i].subkey.sec = 0
                /\ dst.subkeys[i].subkey.pub = src0.subkeys[i].subkey.pub
                /\ dst.subkeys[i].signatures = src0.subkeys[i].signatures
          /\ src = src0
    /\ (op = "copy_pubonly_again" /\ ret = "true") => dst = dst0

\* a public-only copy with a userid and a signed subkey was copied
\* public-only again
C11_Witness ==
    /\ op = "copy_pubonly_again"
    /\ ret = "true"
    /\ dst.userids # <<>>
    /\ \E i \in 1 .. Len(dst.subkeys) : dst.subkeys[i].signatures # <<>>
    /\ dst = src0

ZeroedMpis(key) ==
    \A i \in 1 .. Len(key.material.mpis) : key.material.mpis[i] = <<>>

\* C12: after an error return of decrypt_secret_key or encrypt_secret_key
\* the secret MPI fields of the key packet are zeroed
C12_ErrorZeroesMpis ==
    (/\ kop \in {"decrypt_secret_key", "encrypt_secret_key"}
     /\ kret \notin {"RNP_SUCCESS", "CRASH"})
      => ZeroedMpis(seckey)

\* C12 for decrypt_secret_key on a key packet whose secret MPI fields were
\* zeroed before the call
C12_DecryptErrorZeroesMpis ==
    (/\ kop = "decrypt_secret_key"
     /\ ZeroedMpis(kbefore)
     /\ Len(kdec) >= TrailerSize(kbefore.sec_protection.s2k.usage)
     /\ kret \notin {"RNP_SUCCESS", "CRASH"})
      => ZeroedMpis(seckey)

\* C13: after a successful encrypt_secret_key the key packet holds no
\* cleartext secret material: secret is false and the secret MPI fields are
\* zeroed
C13_EncryptForgets ==
    (kop = "encrypt_secret_key" /\ kret = "RNP_SUCCESS") =>
        ~seckey.material.secret /\ ZeroedMpis(seckey)

\* C14: when decrypt_secret_key or encrypt_secret_key returns after the
\* key derivation was started, the derived-key buffer is zeroed, and a
\* cleartext working buffer that was freed was zeroed before
C14_BuffersZeroed ==
    kop \in {"decrypt_secret_key", "encrypt_secret_key"} =>
        /\ kkeybuf \in {"unused", "zeroed"}
        /\ kbuf \in {"none", "zeroed", "stored"}

\* C15: when pgp_decrypt_seckey or rnp_key_add_protection returns, the
\* local password buffer is zeroed, also when the password provider failed
C15_PasswordBufferZeroed ==
    \A i \in 1 .. Len(pwbuf) : pwbuf[i] = EmptyPassword

\* pgp_decrypt_seckey leaves its password buffer zeroed
C15_DecryptSeckeyBufferZeroed ==
    keyop \in {"pgp_key_unlock", "pgp_key_unprotect",
               "pgp_key_protect_decrypted"} => C15_PasswordBufferZeroed

\* C16: after any sequence of pgp_key_lock, pgp_key_unlock, pgp_key_protect
\* and pgp_key_unprotect, a key that pgp_key_is_locked reports locked holds
\* no secret material: secret is false and the secret MPIs are zeroed
C16_LockedKeyHoldsNoSecrets ==
    (keyop # "idle" /\ pgp_key_is_locked(pgpkey)) =>
        ~pgpkey.pkt.material.secret /\ ZeroedMpis(pgpkey.pkt)

\* a key that was unlocked with its secret MPIs in place got locked by
\* the third operation
C16_Witness ==
    /\ nops = MaxKeyOps
    /\ keyop \in {"pgp_key_lock", "pgp_key_protect", "pgp_key_unprotect"}
    /\ keyres
    /\ ~pgp_key_is_locked(pgpbefore)
    /\ pgp_key_is_secret(pgpbefore)
    /\ ~ZeroedMpis(pgpbefore.pkt)
    /\ pgp_key_is_locked(pgpkey)
    /\ pgpkey.pkt # pgpkey0.pkt

\* the protection a key packet or a raw packet tells of: the s2k usage,
\* the cipher, the s2k hash and iterations, the iv and the salt
ProtectionOf(pkt) ==
    LET Fields(w) == <<w.s2k.usage, w.symm_alg, w.s2k.hash_alg,
                       w.s2k.iterations, w.iv, w.s2k.salt>>
    IN  Fields(WrittenProtection(pkt.sec_protection))

\* C17: after pgp_key_protect and pgp_key_unprotect, whether they succeed
\* or fail, raw packet 0 and the key packet of a key tell of the same
\* protection
C17_RawPacketAgrees ==
    (keyop # "idle" /\ pgp_key_is_secret(pgpkey)) =>
        ProtectionOf(pgpkey.pkt) = ProtectionOf(pgpkey.raw)

\* the same after a pgp_key_protect that succeeded on the key's own key
\* packet
C17_OwnPacketAgrees ==
    (keyop \in {"pgp_key_protect", "rnp_key_add_protection"} /\ keyres
       /\ ProtectionOf(pgpbefore.pkt) = ProtectionOf(pgpbefore.raw)) =>
        ProtectionOf(pgpkey.pkt) = ProtectionOf(pgpkey.raw)

\* the key flags a subkey is bound with: the ones of the binding unless
\* they are zero, else the capabilities of the subkey's algorithm
EffectiveKeyFlags(key_flags, subkey) ==
    IF key_flags # {} THEN key_flags
    ELSE pgp_pk_alg_capabilities(subkey.alg)

\* the key can make a signature
CanSign(key) ==
    signature_calculate(EmptySignature("PGP_SIG_SUBKEY", "PGP_HASH_SHA1",
                                       key.alg),
                        key, <<>>, "none").ok

\* C18: transferable_subkey_bind embeds a primary key binding signature
\* exactly when the effective key flags of the subkey include Sign, and a
\* binding whose flags do not include Sign succeeds with no embedded
\* signature
C18_BackSignatureWhenSigning ==
    sgop = "transferable_subkey_bind" =>
        LET signs == "PGP_KF_SIGN" \in EffectiveKeyFlags(sgargs.key_flags,
                                                         sgtarget.subkey)
        IN  /\ sgres # <<>> => (sgres[1].embedded # <<>> <=> signs)
            /\ (~signs /\ sgargs.env = "none" /\ CanSign(sgkey)) =>
                 (sgres # <<>> /\ sgres[1].embedded = <<>>)

\* the same for a binding with explicit key flags
C18_ExplicitKeyFlags ==
    (sgop = "transferable_subkey_bind" /\ sgargs.key_flags # {}) =>
        C18_BackSignatureWhenSigning

\* C19: the primary key binding signature that transferable_subkey_bind
\* embeds verifies against the primary key and the subkey: it declares the
\* hash algorithm of the hash context it was calculated from, and it has
\* the key id of the subkey as its issuer
C19_BackSignatureVerifies ==
    (sgop = "transferable_subkey_bind" /\ sgres # <<>>
       /\ sgres[1].embedded # <<>>) =>
        /\ sgres[1].embedded[1].halg = sgres[1].embedded[1].hash.alg
        /\ signature_validate(sgres[1].embedded[1], sgtarget.subkey,
                              <<"binding", sgkey.id, sgtarget.subkey.id>>)
        /\ sgres[1].embedded[1].keyid = pgp_keyid(sgtarget.subkey)

\* the same when the primary key and the subkey adjust the hash algorithm
\* that was asked for in the same way
C19_SameAdjustment ==
    (sgop = "transferable_subkey_bind"
       /\ pgp_hash_adjust_alg_to_key(sgargs.hash_alg, sgkey)
            = pgp_hash_adjust_alg_to_key(sgargs.hash_alg, sgtarget.subkey)) =>
        C19_BackSignatureVerifies

\* C20: when transferable_userid_certify or transferable_subkey_bind
\* fails it returns no signature and leaves the signatures of the userid
\* or subkey as they were; when it succeeds, the signature it returns is
\* appended to them, and nothing else is
C20_SignatureAppendedOrNothing ==
    sgop \in {"transferable_userid_certify", "transferable_subkey_bind"} =>
        IF sgres = <<>> THEN sgtarget = sgbefore
        ELSE sgtarget = [sgbefore EXCEPT
                           !.signatures = Append(@, sgres[1])]

\* a subkey that was bound is bound again, and embedding the primary key
\* binding signature fails
C20_Witness ==
    /\ sgop = "transferable_subkey_bind"
    /\ sgargs.env = "embedded"
    /\ "PGP_KF_SIGN" \in sgargs.key_flags
    /\ CanSign(sgkey) /\ CanSign(sgtarget.subkey)
    /\ sgres = <<>>
    /\ Len(sgbefore.signatures) = 1
    /\ sgbefore.signatures[1].embedded # <<>>

\* a valid self-certification of the key over its userid, a key revocation
\* that verifies
IsValidSelfCert(key, sig) ==
    /\ SelfCertification(key, sig)
    /\ sig.uid \in 1 .. key.uids
    /\ sig.valid
    /\ ~sig.expired

IsValidKeyRevocation(sig) == sig.type = "PGP_SIG_REV_KEY" /\ sig.valid

LogIs(i, name) == i \in 1 .. Len(vlog) /\ vlog[i].op = name

\* C21: over successive runs of pgp_key_validate on a primary key, a key
\* that validated as valid stays valid when a valid self-certification is
\* added, a key becomes invalid when a valid key revocation is added, and
\* a valid key is valid again when that revocation is removed; every run
\* gives the valid flag that the signatures of the key determine, whatever
\* the flags were before the run
C21_ValidateRecomputes ==
    \A i \in 1 .. Len(vlog) :
       LogIs(i, "validate") =>
         /\ \A v, d \in BOOLEAN :
               pgp_key_validate_primary(
                 [vlog[i].key EXCEPT !.valid = v, !.validated = d]).valid
                 = vlog[i].valid
         /\ vlog[i].valid <=>
               /\ ~HasVerifiedSignature(vlog[i].key, "PGP_SIG_REV_KEY")
               /\ HasSelfCertification(vlog[i].key) \/ vlog[i].key.secret
         /\ (/\ vlog[i].valid
             /\ LogIs(i + 1, "add")
             /\ IsValidSelfCert(vlog[i].key, vlog[i + 1].sig)
             /\ LogIs(i + 2, "validate")) => vlog[i + 2].valid
         /\ (/\ LogIs(i + 1, "add")
             /\ IsValidKeyRevocation(vlog[i + 1].sig)
             /\ LogIs(i + 2, "validate")) => ~vlog[i + 2].valid
         /\ (/\ vlog[i].valid
             /\ LogIs(i + 1, "add")
             /\ IsValidKeyRevocation(vlog[i + 1].sig)
             /\ LogIs(i + 2, "validate")
             /\ LogIs(i + 3, "remove")
             /\ vlog[i + 3].sig = vlog[i + 1].sig
             /\ LogIs(i + 4, "validate")) => vlog[i + 4].valid

\* a public key with a valid self-certification validates as valid, as
\* invalid once a valid key revocation is added, and as valid again once
\* the revocation is removed
C21_Witness ==
    /\ Len(vlog) = 5
    /\ LogIs(1, "validate") /\ vlog[1].valid /\ ~vlog[1].key.secret
    /\ ~vlog[1].key.valid
    /\ LogIs(2, "add") /\ IsValidKeyRevocation(vlog[2].sig)
    /\ LogIs(3, "validate") /\ ~vlog[3].valid /\ vlog[3].key.valid
    /\ LogIs(4, "remove") /\ vlog[4].sig = vlog[2].sig
    /\ LogIs(5, "validate") /\ vlog[5].valid
    /\ ring[1].valid /\ ring[1].validated

\* the packets the parser reads first: those of the first armored block of
\* an armored source, else those of the source
FirstPackets(s) == IF is_armored_source(s) THEN Head(s).pkts ELSE s

IsTrust(pkt) == pkt.tag = PGP_PKT_TRUST

WithoutTrusts(pkts) == SelectSeq(pkts, LAMBDA pkt : ~IsTrust(pkt))

\* the packets of one well-formed transferable key: a primary key packet,
\* then signatures, userids and subkeys that parse, no userid after a
\* subkey
WellFormedKeyPackets(pkts) ==
    /\ pkts # <<>>
    /\ is_primary_key_pkt(Head(pkts).tag)
    /\ stream_parse_key(Head(pkts)).ret = "RNP_SUCCESS"
    /\ \A i \in 2 .. Len(pkts) :
          \/ pkts[i].tag = PGP_PKT_SIGNATURE /\ pkts[i].sig # 0
          \/ pkts[i].tag \in {PGP_PKT_USER_ID, PGP_PKT_USER_ATTR}
                /\ pkts[i].uid # 0
          \/ is_subkey_pkt(pkts[i].tag)
                /\ stream_parse_key(pkts[i]).ret = "RNP_SUCCESS"
    /\ UseridsFirst(Tail(pkts))

\* the transferable key the packets of a well-formed key stand for
KeyOfPackets(pkts) ==
    AddPackets([key |-> Head(pkts), signatures |-> <<>>, userids |-> <<>>,
                subkeys |-> <<>>], Tail(pkts))

\* C22: process_pgp_key on the stream of a well-formed key with any number
\* of trust packets after its primary key packet, userids, subkeys and
\* signatures succeeds and builds the key of the stream without the trust
\* packets, in which no trust packet is stored
C22_TrustPacketsSkipped ==
    (/\ sop = "process_pgp_key"
     /\ stream # <<>>
     /\ ~IsTrust(Head(FirstPackets(stream)))
     /\ WellFormedKeyPackets(WithoutTrusts(FirstPackets(stream))))
      =>
       LET clean == WithoutTrusts(FirstPackets(stream))
           plain == process_pgp_key(clean, pfuel)
       IN  /\ pret = plain.ret
           /\ pfuel = -1 => pret = "RNP_SUCCESS"
           /\ pret = "RNP_SUCCESS" =>
                 /\ parsed = <<plain.val>>
                 /\ parsed = <<KeyOfPackets(clean)>>
                 /\ \A i \in 1 .. Len(parsed[1].userids) :
                       ~IsTrust(parsed[1].userids[i].uid)
                 /\ \A i \in 1 .. Len(parsed[1].subkeys) :
                       ~IsTrust(parsed[1].subkeys[i].subkey)

\* a key stream with two trust packets in a row after the primary key
\* packet and one after the signature of its userid
C22_Witness ==
    /\ sop = "process_pgp_key"
    /\ pret = "RNP_SUCCESS"
    /\ ~is_armored_source(stream)
    /\ Len(stream) = 5
    /\ is_primary_key_pkt(stream[1].tag)
    /\ IsTrust(stream[2])
    /\ IsTrust(stream[3])
    /\ stream[4].tag = PGP_PKT_SIGNATURE
    /\ IsTrust(stream[5])
    /\ parsed[1].signatures = <<stream[4].sig>>

\* reading keys one after the other from the packets, a key starts at a
\* packet that is not a primary key packet
RECURSIVE StartsWithoutPrimary(_)
StartsWithoutPrimary(pkts) ==
    IF pkts = <<>> THEN FALSE
    ELSE IF ~is_primary_key_pkt(Head(pkts).tag) THEN TRUE
    ELSE LET k == process_pgp_key(pkts, -1)
         IN  k.ret = "RNP_SUCCESS" /\ StartsWithoutPrimary(k.src)

\* the same for a source: its packets, or those of its armored blocks as
\* long as the blocks before parse
RECURSIVE SourceStartsWithoutPrimary(_)
SourceStartsWithoutPrimary(s) ==
    IF ~is_armored_source(s) THEN StartsWithoutPrimary(s)
    ELSE \/ StartsWithoutPrimary(Head(s).pkts)
         \/ /\ process_pgp_keys(<<Head(s)>>, -1).ret = "RNP_SUCCESS"
            /\ is_armored_source(Tail(s))
            /\ SourceStartsWithoutPrimary(Tail(s))

\* the result of the first step of process_pgp_keys on the packets that
\* fails: the test of the tag, the allocation of the key or process_pgp_key
RECURSIVE FirstError(_, _)
FirstError(pkts, fuel) ==
    IF pkts = <<>> THEN "RNP_SUCCESS"
    ELSE IF ~is_primary_key_pkt(Head(pkts).tag) THEN "RNP_ERROR_BAD_FORMAT"
    ELSE IF ~CanAlloc(fuel) THEN "RNP_ERROR_OUT_OF_MEMORY"
    ELSE LET k == process_pgp_key(pkts, Spend(fuel))
         IN  IF k.ret # "RNP_SUCCESS" THEN k.ret
             ELSE FirstError(k.src, k.fuel)

\* C23: process_pgp_keys returns BadFormat when a key starts at a packet
\* that is not a primary key packet; whenever it fails, it returns the
\* first error met and an empty key sequence
C23_FirstErrorEmptySequence ==
    sop = "process_pgp_keys" =>
       /\ pret # "RNP_SUCCESS" => parsed = <<>>
       /\ (pfuel = -1 /\ SourceStartsWithoutPrimary(stream)) =>
             pret = "RNP_ERROR_BAD_FORMAT"
       /\ SourceStartsWithoutPrimary(stream) => pret # "RNP_SUCCESS"
       /\ ~is_armored_source(stream) => pret = FirstError(stream, pfuel)

\* a userid follows the subkey of a key that parsed: BadFormat and no key
C23_Witness ==
    /\ sop = "process_pgp_keys"
    /\ ~is_armored_source(stream)
    /\ Len(stream) >= 4
    /\ is_primary_key_pkt(stream[1].tag)
    /\ stream[2].tag = PGP_PKT_SIGNATURE
    /\ is_subkey_pkt(stream[3].tag)
    /\ stream[4].tag = PGP_PKT_USER_ID
    /\ process_pgp_key(stream, -1).ret = "RNP_SUCCESS"
    /\ pret = "RNP_ERROR_BAD_FORMAT"
    /\ parsed = <<>>

\* the packets cut in front of every primary key packet
RECURSIVE KeySegments(_)
KeySegments(pkts) ==
    IF pkts = <<>> THEN <<>>
    ELSE LET n == Len(pkts)
             front == KeySegments(SubSeq(pkts, 1, n - 1))
         IN  IF is_primary_key_pkt(pkts[n].tag) \/ front = <<>>
             THEN Append(front, <<pkts[n]>>)
             ELSE [front EXCEPT ![Len(front)] = Append(@, pkts[n])]

\* an armored block that holds one or more well-formed keys
WellFormedBlock(item) ==
    /\ IsArmor(item)
    /\ item.pkts # <<>>
    /\ ~IsTrust(Head(item.pkts))
    /\ \A i \in 1 .. Len(KeySegments(WithoutTrusts(item.pkts))) :
          WellFormedKeyPackets(KeySegments(WithoutTrusts(item.pkts))[i])

\* the keys of the blocks, in the order of the input
RECURSIVE KeysOfBlocks(_)
KeysOfBlocks(s) ==
    IF s = <<>> THEN <<>>
    ELSE LET segs == KeySegments(WithoutTrusts(Head(s).pkts))
         IN  [i \in 1 .. Len(segs) |-> KeyOfPackets(segs[i])]
               \o KeysOfBlocks(Tail(s))

\* the signatures of a transferable key
KeySignatureCount(key) ==
    Len(key.signatures)
      + SumSeq([i \in 1 .. Len(key.userids) |->
                  Len(key.userids[i].signatures)])
      + SumSeq([i \in 1 .. Len(key.subkeys) |->
                  Len(key.subkeys[i].signatures)])

\* the signature packets of the blocks
SignaturePacketCount(s) ==
    SumSeq([i \in 1 .. Len(s) |->
              Len(SelectSeq(s[i].pkts,
                            LAMBDA pkt : pkt.tag = PGP_PKT_SIGNATURE))])

\* C24: for a source of one or more armored blocks that hold one or more
\* keys each, process_pgp_keys returns the keys of all blocks in the order
\* of the input, and they have as many signatures as the input has
\* signature packets
C24_ArmoredBlocksInOrder ==
    (/\ sop = "process_pgp_keys"
     /\ pfuel = -1
     /\ stream # <<>>
     /\ \A i \in 1 .. Len(stream) : WellFormedBlock(stream[i]))
      =>
       /\ pret = "RNP_SUCCESS"
       /\ parsed = KeysOfBlocks(stream)
       /\ SumSeq([i \in 1 .. Len(parsed) |-> KeySignatureCount(parsed[i])])
            = SignaturePacketCount(stream)

\* two blocks, the first one of two keys, and two signatures in all
C24_Witness ==
    /\ sop = "process_pgp_keys"
    /\ pfuel = -1
    /\ Len(stream) = 2
    /\ \A i \in 1 .. 2 : WellFormedBlock(stream[i])
    /\ pret = "RNP_SUCCESS"
    /\ Len(parsed) = 3
    /\ parsed[1] # parsed[2]
    /\ parsed[2] # parsed[3]
    /\ SignaturePacketCount(stream) = 2

IsTruncated(pkt) == pkt.tag < 0

\* the packets of a well-formed key, with trust packets where they may be
WellFormedWithTrusts(pkts) ==
    /\ pkts # <<>>
    /\ ~IsTrust(Head(pkts))
    /\ WellFormedKeyPackets(WithoutTrusts(pkts))

\* the source ends in the middle of a packet that follows the packets of a
\* well-formed key
TruncatedKeyStream(s) ==
    /\ ~is_armored_source(s)
    /\ Len(s) >= 2
    /\ IsTruncated(s[Len(s)])
    /\ WellFormedWithTrusts(SubSeq(s, 1, Len(s) - 1))

\* the source ends after a whole packet of a well-formed key
EndedKeyStream(s) == ~is_armored_source(s) /\ WellFormedWithTrusts(s)

\* C25 as stated: when the source ends while the parser is in the signature
\* run, the userid run or the subkey run of a key, the parse returns
\* BadFormat
C25_EndOfInputBadFormat ==
    (/\ sop \in {"process_pgp_key", "process_pgp_keys"}
     /\ pfuel = -1
     /\ TruncatedKeyStream(stream) \/ EndedKeyStream(stream))
      => pret = "RNP_ERROR_BAD_FORMAT"

\* C25: when the source ends in the middle of a packet while the parser is
\* in the signature run, the userid run or the subkey run of a key, the
\* parse returns BadFormat and no key; when it ends after a whole packet,
\* the key ends there and the parse succeeds
C25_TruncatedBadFormat ==
    (/\ sop \in {"process_pgp_key", "process_pgp_keys"}
     /\ pfuel = -1)
      =>
       /\ TruncatedKeyStream(stream) =>
             pret = "RNP_ERROR_BAD_FORMAT" /\ parsed = <<>>
       /\ EndedKeyStream(stream) =>
             /\ pret = "RNP_SUCCESS"
             /\ parsed = <<KeyOfPackets(WithoutTrusts(stream))>>

\* the source ends in the middle of the packet after the subkey of a key
\* with a signed userid
C25_Witness ==
    /\ sop = "process_pgp_key"
    /\ pfuel = -1
    /\ TruncatedKeyStream(stream)
    /\ Len(stream) = 5
    /\ stream[2].tag = PGP_PKT_USER_ID
    /\ stream[3].tag = PGP_PKT_SIGNATURE
    /\ is_subkey_pkt(stream[4].tag)
    /\ pret = "RNP_ERROR_BAD_FORMAT"
    /\ parsed = <<>>

\* the raw packets of the k-th key of the store that can be written
RawOf(k) ==
    LET whole == SelectSeq(kstore[k].packets, LAMBDA pkt : pkt.raw # <<>>)
    IN  [i \in 1 .. Len(whole) |-> whole[i].raw]

RECURSIVE Concat(_)
Concat(seqs) == IF seqs = <<>> THEN <<>> ELSE Head(seqs) \o Concat(Tail(seqs))

\* the indices of a set in increasing order
RECURSIVE Ascending(_)
Ascending(set) ==
    IF set = {} THEN <<>>
    ELSE LET m == CHOOSE i \in set : \A j \in set : i <= j
         IN  <<m>> \o Ascending(set \ {m})

IsSecretKey(k) == kstore[k].pkt.tag \in {PGP_PKT_SECRET_KEY, PGP_PKT_SECRET_SUBKEY}

IsPrimaryKey(k) == kstore[k].pkt.tag \in {PGP_PKT_SECRET_KEY, PGP_PKT_PUBLIC_KEY}

\* the packets of the subkey the primary key names by the grip: those of
\* the first key of the store with the grip that is of its kind
SubkeyPackets(p, grip) ==
    LET same == {k \in 1 .. Len(kstore) :
                   kstore[k].grip = grip /\ IsSecretKey(k) = IsSecretKey(p)}
    IN  IF same = {} THEN <<>> ELSE RawOf(Ascending(same)[1])

\* the packets of a primary key, then those of its subkeys
PrimaryWithSubkeys(p) ==
    RawOf(p) \o Concat([i \in 1 .. Len(kstore[p].subkey_grips) |->
                          SubkeyPackets(p, kstore[p].subkey_grips[i])])

\* the primary keys of a kind in the order of the store, each with its
\* subkeys
KeysOfKind(secret) ==
    LET ps == Ascending({k \in 1 .. Len(kstore) :
                           IsPrimaryKey(k) /\ IsSecretKey(k) = secret})
    IN  Concat([i \in 1 .. Len(ps) |-> PrimaryWithSubkeys(ps[i])])

IsPrefix(a, b) == Len(a) <= Len(b) /\ a = SubSeq(b, 1, Len(a))

\* C26: rnp_key_store_pgp_write_to_dst writes the public primary keys in
\* the order of the store, then the secret ones in the order of the store,
\* each followed at once by its subkeys of the same kind in the order of
\* its subkey grips; what a failed call wrote is the start of that
C26_PublicThenSecretWithSubkeys ==
    stop = "rnp_key_store_pgp_write_to_dst" =>
       LET whole == KeysOfKind(FALSE) \o KeysOfKind(TRUE)
           out == sdst.data
       IN  /\ sres => out = whole
           /\ IsPrefix(out, whole)
           /\ \A a, b \in 1 .. Len(out) :
                 (a < b /\ IsPrimaryKey(out[a][1]) /\ IsPrimaryKey(out[b][1]))
                   => /\ IsSecretKey(out[a][1]) => IsSecretKey(out[b][1])
                      /\ IsSecretKey(out[a][1]) = IsSecretKey(out[b][1])
                           => out[a][1] <= out[b][1]

\* a store of a secret primary key, a public primary key and its two public
\* subkeys, named in the other order than they are stored in
C26_Witness ==
    /\ stop = "rnp_key_store_pgp_write_to_dst"
    /\ sres
    /\ Len(kstore) = 4
    /\ kstore[1].pkt.tag = PGP_PKT_SECRET_KEY
    /\ kstore[2].pkt.tag = PGP_PKT_PUBLIC_KEY
    /\ kstore[2].subkey_grips = <<4, 3>>
    /\ kstore[3].pkt.tag = PGP_PKT_PUBLIC_SUBKEY /\ kstore[3].grip = 3
    /\ kstore[4].pkt.tag = PGP_PKT_PUBLIC_SUBKEY /\ kstore[4].grip = 4
    /\ sdst.data = <<<<2, 1>>, <<2, 2>>, <<4, 1>>, <<4, 2>>, <<3, 1>>,
                     <<3, 2>>, <<1, 1>>, <<1, 2>>>>

\* C27: the armor type of an armored write_pgp_keys is
\* PGP_ARMORED_SECRET_KEY exactly when the first key of the sequence has
\* the secret primary key tag, and PGP_ARMORED_PUBLIC_KEY otherwise, also
\* for the empty sequence and for a public key followed by a secret one
C27_ArmorTypeOfFirstKey ==
    (sop = "write_pgp_keys" /\ warmor) =>
       /\ Len(stream) = 1
       /\ stream[1].armor \in {"PGP_ARMORED_SECRET_KEY",
                                "PGP_ARMORED_PUBLIC_KEY"}
       /\ stream[1].armor = "PGP_ARMORED_SECRET_KEY"
             <=> (Len(wkeys) > 0 /\ wkeys[1].key.tag = PGP_PKT_SECRET_KEY)

\* a public key followed by a secret key was written armored
C27_Witness ==
    /\ sop = "write_pgp_keys"
    /\ warmor
    /\ Len(wkeys) = 2
    /\ wkeys[1].key.tag = PGP_PKT_PUBLIC_KEY
    /\ wkeys[2].key.tag = PGP_PKT_SECRET_KEY
    /\ stream[1].armor = "PGP_ARMORED_PUBLIC_KEY"

\* the digest length of a hash algorithm in bits
DigestBits(hash) ==
    CASE hash = "PGP_HASH_SHA1" -> 160
      [] hash = "PGP_HASH_SHA256" -> 256
      [] hash = "PGP_HASH_SHA512" -> 512
      [] OTHER -> 0

\* C28: the hash of a signature made with a key for a requested hash is,
\* for a DSA or ECDSA key, the key's minimum hash when the requested hash
\* has a shorter digest than the minimum and the requested hash otherwise,
\* and the requested hash for every other algorithm; it never has a
\* shorter digest than the request; with the minimum SHA-256 of a DSA key
\* with a Q of 256 bits SHA-1 becomes SHA-256 and SHA-512 is kept
C28_HashAdjustedToKey ==
    sgop # "init" =>
       LET request == sgargs.hash_alg
           signer == sgargs.signer
           adjusted == pgp_hash_adjust_alg_to_key(request, signer)
       IN  /\ sgres # <<>> => sgres[1].halg = adjusted
           /\ signer.alg \in {"PGP_PKA_DSA", "PGP_PKA_ECDSA"} =>
                 adjusted = IF DigestBits(request) < DigestBits(signer.hash_min)
                            THEN signer.hash_min
                            ELSE request
           /\ signer.alg \notin {"PGP_PKA_DSA", "PGP_PKA_ECDSA"} =>
                 adjusted = request
           /\ DigestBits(adjusted) >= DigestBits(request)
           /\ (signer.alg = "PGP_PKA_DSA"
                 /\ signer.hash_min = "PGP_HASH_SHA256") =>
                 /\ request = "PGP_HASH_SHA1" => adjusted = "PGP_HASH_SHA256"
                 /\ request = "PGP_HASH_SHA512" => adjusted = "PGP_HASH_SHA512"

\* a certification with SHA-1 asked of a DSA key whose minimum hash is
\* SHA-256 was made with SHA-256
C28_Witness ==
    /\ sgop = "transferable_userid_certify"
    /\ sgargs.signer.alg = "PGP_PKA_DSA"
    /\ sgargs.signer.hash_min = "PGP_HASH_SHA256"
    /\ sgargs.hash_alg = "PGP_HASH_SHA1"
    /\ sgres # <<>>
    /\ sgres[1].halg = "PGP_HASH_SHA256"

\* the signatures of the userids of the transferable key that satisfy
\* Is, in their order, each with the index of its userid
UseridSignatures(Is(_)) ==
    Concat([k \in 1 .. Len(tkey.userids) |->
              LET sigs == SelectSeq(tkey.userids[k].signatures, Is)
              IN  [i \in 1 .. Len(sigs) |-> <<k - 1, sigs[i]>>]])

\* the reason text of a revocation: the signature's own, that of the code
\* map when it has none
ReasonText(signature, text) ==
    LET sig == ParsedSignature(signature) IN
    /\ text # ""
    /\ sig.revocation_reason # <<>> =>
          text = IF sig.revocation_reason[1].reason # ""
                 THEN sig.revocation_reason[1].reason
                 ELSE IF \E i \in 1 .. Len(ss_rr_code_map) :
                           ss_rr_code_map[i].type = sig.revocation_reason[1].code
                 THEN LET i == CHOOSE i \in 1 .. Len(ss_rr_code_map) :
                                 ss_rr_code_map[i].type
                                   = sig.revocation_reason[1].code
                      IN  ss_rr_code_map[i].string
                 ELSE text

\* the built key records the signatures of the transferable key that
\* satisfy Is: those on the key mark the whole key revoked, those on a
\* userid add one revocation of that userid each and nothing else marks
\* the key revoked
RevocationsRecorded(Is(_)) ==
    (stop = "rnp_key_from_transferable_key" /\ rres) =>
       LET direct == SelectSeq(tkey.signatures, Is)
           onuids == UseridSignatures(Is)
       IN  /\ direct # <<>> =>
                 /\ rkey.revoked = 1
                 /\ ReasonText(direct[Len(direct)], rkey.revocation.reason)
           /\ direct = <<>> => rkey.revoked = 0
           /\ Len(rkey.revokes) = Len(onuids)
           /\ \A i \in 1 .. Len(onuids) :
                 /\ rkey.revokes[i].uid = uint32_t(onuids[i][1])
                 /\ ReasonText(onuids[i][2], rkey.revokes[i].reason)

IsRevocationSignature(sig) ==
    ParsedSignature(sig).type
      \in {"PGP_SIG_REV_KEY", "PGP_SIG_REV_SUBKEY", "PGP_SIG_REV_CERT"}

HasRevocationReason(sig) == ParsedSignature(sig).revocation_reason # <<>>

\* C29: in a key built from a transferable key every revocation signature
\* added while the key has no userids marks the whole key revoked, every
\* revocation signature added after a userid records exactly one
\* revocation of the userid added last and does not mark the whole key
\* revoked, and the stored reason text is not empty, that of the code map
\* when the signature has no text of its own
C29_RevocationSignaturesRecorded == RevocationsRecorded(IsRevocationSignature)

\* the same of the signatures that carry a revocation reason, of whatever
\* type they are
C29_ReasonSubpacketsRecorded == RevocationsRecorded(HasRevocationReason)

\* C30: in a key built by rnp_key_from_transferable_key with uid0_set,
\* uid0 is the index of a userid of the key (0 <= uid0 < userid count), one
\* of whose signatures carries the primary userid flag, wherever the
\* flagged signature stands, among the signatures on the key that come
\* before the first userid too
C30_PrimaryUseridExists ==
    (stop = "rnp_key_from_transferable_key" /\ rres /\ rkey.uid0_set = 1) =>
       \E i \in 0 .. pgp_key_get_userid_count(rkey) - 1 :
          /\ rkey.uid0 = uint32_t(i)
          /\ \E j \in 1 .. Len(tkey.userids[i + 1].signatures) :
                ParsedSignature(tkey.userids[i + 1].signatures[j]).primary_uid

\* the same of the transferable keys with no flagged signature on the key
\* itself
C30_FlaggedOnUserids ==
    (\A j \in 1 .. Len(tkey.signatures) :
        ~ParsedSignature(tkey.signatures[j]).primary_uid) =>
       C30_PrimaryUseridExists

\* the offsets of the headers of the MPIs of a blob from pos on, as far as
\* the blob holds k whole MPIs of a block at least; the last entry is the
\* offset after the last of them
RECURSIVE V3Layout(_, _, _, _)
V3Layout(enc, pos, k, blsize) ==
    IF k = 0 THEN <<pos>>
    ELSE IF pos + 2 > Len(enc) THEN <<>>
    ELSE LET n == (read_uint16(enc, pos + 1) + 7) \div 8
         IN  IF n < blsize \/ pos + 2 + n > Len(enc) THEN <<>>
             ELSE LET rest == V3Layout(enc, pos + 2 + n, k - 1, blsize)
                  IN  IF rest = <<>> THEN <<>> ELSE <<pos>> \o rest

\* exactly four MPIs of a block at least and two bytes after them
FourMpisAndTrailer(enc, blsize) ==
    LET layout == V3Layout(enc, 0, 4, blsize)
    IN  layout # <<>> /\ layout[5] + 2 = Len(enc)

\* the v3 decryption of the blob the key held before the call
V3Decrypted ==
    decrypt_secret_key_v3(
      pgp_cipher_cfb_start(
        kbefore.sec_protection.symm_alg,
        pgp_s2k_derive_key(kbefore.sec_protection.s2k, kpw),
        kbefore.sec_protection.iv),
      kbefore.sec_data)

V3DecryptCalled ==
    /\ kop = "decrypt_secret_key"
    /\ kbefore.version = PGP_V3
    /\ kbefore.sec_protection.s2k.usage # "PGP_S2KU_NONE"
    /\ is_rsa_key_alg(kbefore.alg)
    /\ kpw # 0
    /\ kenv \notin {"derive", "alloc", "cipher"}

\* C31: decrypt_secret_key_v3 accepts a blob exactly when it is four MPIs,
\* each of a cipher block at least, and two trailer bytes, and returns
\* BadFormat otherwise; it reads only inside enc[0..len) and writes only
\* inside dec[0..len), and the MPI headers and the trailer are copied as
\* they are
C31_V3BlobLayout ==
    V3DecryptCalled =>
       LET enc == kbefore.sec_data
           blsize == pgp_block_size(kbefore.sec_protection.symm_alg)
           r == V3Decrypted
           layout == V3Layout(enc, 0, 4, blsize)
       IN  /\ r.ret = "RNP_SUCCESS" <=> FourMpisAndTrailer(enc, blsize)
           /\ r.ret # "RNP_SUCCESS" =>
                 /\ r.ret = "RNP_ERROR_BAD_FORMAT"
                 /\ kret = "RNP_ERROR_BAD_FORMAT"
                 /\ kdec = <<>>
           /\ r.reads \subseteq 0 .. Len(enc) - 1
           /\ r.writes \subseteq 0 .. Len(enc) - 1
           /\ r.writes \subseteq r.reads
           /\ r.ret = "RNP_SUCCESS" =>
                 /\ kdec = r.dec
                 /\ Len(r.dec) = Len(enc)
                 /\ r.writes = 0 .. Len(enc) - 1
                 /\ \A i \in 1 .. 5 :
                       SubSeq(r.dec, layout[i] + 1, layout[i] + 2)
                         = SubSeq(enc, layout[i] + 1, layout[i] + 2)

\* a blob of four MPIs of two and three bytes and a trailer was decrypted
C31_Witness ==
    /\ V3DecryptCalled
    /\ Len(kbefore.sec_data) = 8 + 2 + 3 + 2 + 3 + 2
    /\ kdec # <<>>
    /\ SubSeq(kdec, 3, 4) # SubSeq(kbefore.sec_data, 3, 4)
    /\ SubSeq(kdec, 19, 20) = SubSeq(kbefore.sec_data, 19, 20)

\* the signatures of the signature and trust packets a source starts with
RECURSIVE SignatureRun(_)
SignatureRun(s) ==
    IF s = <<>> THEN <<>>
    ELSE IF Head(s).tag = PGP_PKT_TRUST THEN SignatureRun(Tail(s))
    ELSE IF Head(s).tag = PGP_PKT_SIGNATURE
    THEN <<Head(s).sig>> \o SignatureRun(Tail(s))
    ELSE <<>>

\* the last source read started with a subkey packet and was read
OrphanSubkeyRead ==
    /\ stop \in {"rnp_key_store_pgp_read_from_src",
                 "rnp_key_store_pgp_write_to_dst"}
    /\ ssrc # <<>>
    /\ Head(ssrc).tag \in {PGP_PKT_PUBLIC_SUBKEY, PGP_PKT_SECRET_SUBKEY}
    /\ sret = "RNP_SUCCESS"

\* C32: a source that starts with a subkey packet and is read by
\* rnp_key_store_pgp_read_from_src adds exactly one key to the store: the
\* subkey with its signatures, without a primary grip, and no key of the
\* store is changed, so that no primary key lists it; the
\* rnp_key_store_pgp_write_to_dst that follows succeeds and writes what it
\* writes of the store without the subkey, no packet of the subkey
C32_OrphanSubkeyNotWritten ==
    OrphanSubkeyRead =>
       LET subkey == kstore[Len(kstore)]
           grip == Head(ssrc).pub
           fresh == \A i \in 1 .. Len(kstore0) : kstore0[i].grip # grip
           empty == [data |-> <<>>, werr |-> FALSE]
       IN  /\ Len(kstore) = Len(kstore0) + 1
           /\ SubSeq(kstore, 1, Len(kstore0)) = kstore0
           /\ subkey.pkt = Head(ssrc)
           /\ subkey.grip = grip
           /\ subkey.primary_grip = <<>>
           /\ [i \in 1 .. Len(subkey.subsigs) |-> subkey.subsigs[i].sig]
                 = SignatureRun(Tail(ssrc))
           /\ fresh => \A i \in 1 .. Len(kstore) :
                           \A j \in 1 .. Len(kstore[i].subkey_grips) :
                              kstore[i].subkey_grips[j] # grip
           /\ stop = "rnp_key_store_pgp_write_to_dst" =>
                 /\ sres
                 /\ sdst = rnp_key_store_pgp_write_to_dst(kstore0, empty).dst
                 /\ fresh => \A i \in 1 .. Len(sdst.data) :
                                 sdst.data[i][1] # subkey.packets[1].raw[1]

\* a subkey with a signature was read into a store that holds a primary
\* key with a userid, and the store was written
C32_Witness ==
    /\ OrphanSubkeyRead
    /\ stop = "rnp_key_store_pgp_write_to_dst"
    /\ Len(kstore0) >= 1
    /\ kstore0[1].uids # <<>>
    /\ kstore[Len(kstore)].subsigs # <<>>
    /\ sdst.data # <<>>

AddTransferableKeyFailed ==
    /\ stop = "rnp_key_store_add_transferable_key"
    /\ sret = "false"

\* C37: when rnp_key_store_add_transferable_key returns false the store
\* holds the keys it held before the call: neither the primary key nor a
\* subkey that was added before the step that failed is left in it
C37_FailedAddLeavesStore ==
    AddTransferableKeyFailed => kstore = kstore0

\* when rnp_key_store_add_transferable_key returns false the keys the
\* store held before are left as they were and the primary key is not in
\* it; what else it holds are the subkeys added before the step that failed
C37_FailedAddRemovesPrimary ==
    AddTransferableKeyFailed =>
       /\ IsPrefix(kstore0, kstore)
       /\ \A i \in Len(kstore0) + 1 .. Len(kstore) :
             /\ kstore[i].pkt = tkey.subkeys[i - Len(kstore0)].subkey
             /\ kstore[i].primary_grip = <<tkey.key.pub>>

\* the packets of a transferable key without subkeys as they are written:
\* the key packet, the signatures on the key, and each userid followed by
\* its signatures
TransferablePackets(tk) ==
    <<stream_write_key(tk.key).val>>
      \o [i \in 1 .. Len(tk.signatures) |->
            stream_write_signature(tk.signatures[i])]
      \o Concat([k \in 1 .. Len(tk.userids) |->
                   <<stream_write_userid(tk.userids[k].uid)>>
                     \o [i \in 1 .. Len(tk.userids[k].signatures) |->
                           stream_write_signature(
                             tk.userids[k].signatures[i])]])

\* the number of raw packets of the key built from a transferable key
RawPacketCount(tk) ==
    1 + Len(tk.signatures)
      + Len(Concat([k \in 1 .. Len(tk.userids) |->
                      <<0>> \o tk.userids[k].signatures]))

\* C38: for a transferable key T without subkeys the key built by
\* rnp_key_from_transferable_key has as raw packets the key packet (at
\* index 0), the signatures on the key, and each userid followed by its
\* signatures, 1 + #direct + the sum over the userids of 1 + #signatures
\* in all, and transferable_key_from_key of that key gives T back
C38_RoundTrip ==
    /\ (stop \in {"rnp_key_from_transferable_key",
                  "transferable_key_from_key"} /\ rres) =>
          /\ [i \in 1 .. Len(rkey.packets) |-> rkey.packets[i].raw[1]]
                = TransferablePackets(tkey)
          /\ \A i \in 1 .. Len(rkey.packets) :
                /\ rkey.packets[i].tag = rkey.packets[i].raw[1].tag
                /\ rkey.packets[i].length > 0
          /\ Len(rkey.packets) = RawPacketCount(tkey)
          /\ rkey.packets[1].raw = <<tkey.key>>
    /\ stop = "transferable_key_from_key" =>
          /\ sret \in {"RNP_SUCCESS", "RNP_ERROR_OUT_OF_MEMORY"}
          /\ sret = "RNP_SUCCESS" => tfrom = tkey

\* a transferable key with a signature on the key and two userids, one
\* with two signatures, came back from the key built of it
C38_Witness ==
    /\ stop = "transferable_key_from_key"
    /\ sret = "RNP_SUCCESS"
    /\ Len(tkey.signatures) = 1
    /\ Len(tkey.userids) = 2
    /\ Len(tkey.userids[2].signatures) = 2
    /\ tfrom = tkey
    /\ Len(rkey.packets) = 6

EncryptFailed ==
    /\ kop = "encrypt_secret_key"
    /\ kret # "RNP_SUCCESS"

\* C33: an encrypt_secret_key that returns an error leaves the key packet
\* as it was: the secret blob and its length, the iv, the s2k salt and the
\* secret key material, also when a v3 key with a usage other than none
\* is refused
C33_FailedEncryptLeavesKey ==
    EncryptFailed => seckey = kbefore

\* an encrypt_secret_key that returns an error leaves the key packet as it
\* was but for the iv and the s2k salt
C33_FailedEncryptLeavesBlob ==
    EncryptFailed =>
       seckey = [kbefore EXCEPT
                   !.sec_protection.iv = seckey.sec_protection.iv,
                   !.sec_protection.s2k.salt = seckey.sec_protection.s2k.salt]

\* a v3 key with a usage other than none was refused and has a new iv
C33_V3Refused ==
    /\ EncryptFailed
    /\ kbefore.version = PGP_V3
    /\ kbefore.sec_protection.s2k.usage # "PGP_S2KU_NONE"
    /\ kenv = "none"
    /\ kret = "RNP_ERROR_BAD_PARAMETERS"
    /\ seckey.sec_protection.iv # kbefore.sec_protection.iv

\* C35: pgp_key_unprotect does not change whether the key is locked; after
\* a successful call a protected key that was locked is locked, with its
\* secret MPIs zeroed, one that was unlocked is unlocked, and
\* pgp_key_is_protected is false; a call on a protected, locked key that
\* fails leaves the key as it was, protected and locked
C35_UnprotectKeepsLock ==
    keyop = "pgp_key_unprotect" =>
       /\ pgp_key_is_locked(pgpkey) = pgp_key_is_locked(pgpbefore)
       /\ keyres =>
             /\ ~pgp_key_is_protected(pgpkey)
             /\ pgp_key_is_locked(pgpbefore) =>
                   pgpkey.pkt.material
                     = forget_secret_key_fields(pgpkey.pkt.material,
                                                pgpkey.pkt.alg)
             /\ ~pgp_key_is_locked(pgpbefore) =>
                   pgpkey.pkt.material = pgpbefore.pkt.material
       /\ (~keyres /\ pgp_key_is_locked(pgpbefore)
             /\ pgp_key_is_protected(pgpbefore)) =>
             /\ pgpkey = pgpbefore
             /\ pgp_key_is_protected(pgpkey)
             /\ pgp_key_is_locked(pgpkey)

\* a protected, locked key was unprotected with the password asked for,
\* its raw packet was written anew, and it is locked
C35_Witness ==
    /\ keyop = "pgp_key_unprotect"
    /\ keyres
    /\ asked
    /\ pgp_key_is_protected(pgpbefore)
    /\ pgp_key_is_locked(pgpbefore)
    /\ pgp_key_is_locked(pgpkey)
    /\ pgpkey.raw # pgpbefore.raw

\* C36 as it is written: pgp_key_unlock asks the provider only when the
\* key is locked and its s2k usage is not none; when it returns false the
\* key packet and the raw packet are unchanged and the key is locked, when
\* it returns true the key is unlocked
C36_UnlockAsWritten ==
    keyop = "pgp_key_unlock" =>
       /\ asked => (pgp_key_is_locked(pgpbefore)
                     /\ pgp_key_is_protected(pgpbefore))
       /\ ~keyres => (pgpkey = pgpbefore /\ pgp_key_is_locked(pgpkey))
       /\ keyres => ~pgp_key_is_locked(pgpkey)

\* what pgp_key_unlock of the key gives with the provider, when env fails
UnlockOutcome(key, provider, env, r) ==
    /\ r.asked => /\ pgp_key_is_locked(key)
                  /\ pgp_key_is_protected(key)
                  /\ provider.callback # "null"
    /\ ~r.ret => r.key = key
    /\ (~r.ret /\ pgp_key_is_locked(key)) => pgp_key_is_locked(r.key)
    /\ r.ret => ~pgp_key_is_locked(r.key)
    /\ r.ret => r.key.raw = key.raw
    /\ (pgp_key_is_secret(key) /\ provider.callback # "null") =>
          /\ ~pgp_key_is_locked(key) => (r.ret /\ ~r.asked /\ r.key = key)
          /\ (pgp_key_is_locked(key) /\ ~pgp_key_is_protected(key)) =>
                /\ ~r.asked
                /\ env = "none" => r.ret
    /\ (~pgp_key_is_secret(key) \/ provider.callback = "null") =>
          (~r.ret /\ ~r.asked)

\* C36: pgp_key_unlock asks the provider only when the key is a locked
\* secret key whose s2k usage is not none; with a provider, a secret key
\* that is unlocked already gives true with no request and a locked
\* unprotected key is unlocked with no request; when it returns false the
\* key packet and the raw packet are unchanged and a key that was locked
\* is locked (a key that is not secret and a null provider give false
\* whether the key is locked or not), when it returns true the key is
\* unlocked
C36_UnlockOutcome ==
    keyop = "pgp_key_unlock" =>
       /\ \A provider \in Providers, env \in KeyEnvs :
             UnlockOutcome(pgpbefore, provider, env,
                           pgp_key_unlock(pgpbefore, provider, env))
       /\ \E provider \in Providers, env \in KeyEnvs :
             LET r == pgp_key_unlock(pgpbefore, provider, env)
             IN  /\ pgpkey = r.key
                 /\ keyres = r.ret
                 /\ asked = r.asked

\* a protected, locked key was unlocked with the password asked for
C36_Witness ==
    /\ keyop = "pgp_key_unlock"
    /\ keyres
    /\ asked
    /\ pgp_key_is_protected(pgpbefore)
    /\ pgp_key_is_locked(pgpbefore)
    /\ ~pgp_key_is_locked(pgpkey)
    /\ pgpkey.raw = pgpbefore.raw

\* decrypt_secret_key was called on a secret key packet whose stored blob
\* is shorter than its trailer
ShortBlobDecrypted ==
    /\ kop = "decrypt_secret_key"
    /\ is_secret_key_pkt(kbefore.tag)
    /\ Len(kbefore.sec_data) < TrailerSize(kbefore.sec_protection.s2k.usage)

\* the results that are errors decrypt_secret_key returns
DecryptErrors ==
    {"RNP_ERROR_NULL_POINTER", "RNP_ERROR_BAD_PARAMETERS",
     "RNP_ERROR_BAD_FORMAT", "RNP_ERROR_BAD_STATE",
     "RNP_ERROR_DECRYPT_FAILED", "RNP_ERROR_OUT_OF_MEMORY"}

\* C39: decrypt_secret_key returns an error, and reads nothing outside
\* the blob, for every stored blob that is shorter than its trailer (2
\* bytes with sum16, 20 bytes with SHA-1): the subtraction of the trailer
\* size from the blob length does not wrap around
C39_ShortBlobIsError ==
    ShortBlobDecrypted =>
       /\ kret \in DecryptErrors
       /\ seckey = kbefore

\* decrypt_secret_key reads outside the blob only when the bytes it
\* passes to parse_secret_key_mpis are fewer than the trailer
C39_OutsideReadsOnlyShort ==
    (kop = "decrypt_secret_key" /\ kret = "CRASH") => ShortBlobDecrypted

\* a stored blob of one byte was given to decrypt_secret_key, which read
\* outside of it
C39_ShortBlobRead ==
    /\ ShortBlobDecrypted
    /\ Len(kbefore.sec_data) = 1
    /\ kret = "CRASH"

\* C40: pgp_key_validate on a subkey leaves every other key of the key store
\* as it was, the primary key included; with the primary key's valid flag
\* unset at the time of the call the subkey ends with valid unset and
\* validated set, whatever its signatures are; with no primary key of that
\* grip in the key store the result is RNP_ERROR_BAD_PARAMETERS, valid is
\* unset and validated is as it was
C40_SubkeyReadsPrimaryFlag ==
    (vkey # 0 /\ ring0[vkey].subkey) =>
       LET primary == rnp_key_store_get_key_by_grip(ring0,
                                                    ring0[vkey].primary_grip)
       IN  /\ \A i \in 1 .. Len(ring0) : i # vkey => ring[i] = ring0[i]
           /\ Len(ring) = Len(ring0)
           /\ primary = 0 =>
                 /\ vret = "RNP_ERROR_BAD_PARAMETERS"
                 /\ ~ring[vkey].valid
                 /\ ring[vkey].validated = ring0[vkey].validated
           /\ (primary # 0 /\ ~ring0[primary].valid) =>
                 /\ vret = "RNP_SUCCESS"
                 /\ ~ring[vkey].valid
                 /\ ring[vkey].validated

\* a subkey with a binding signature that verifies, validated before its
\* primary key was: it is validated and not valid
C40_Witness ==
    /\ vkey = 2
    /\ ring0[2].subkey
    /\ ring0[2].primary_grip = ring0[1].grip
    /\ ~ring0[1].valid
    /\ ~ring0[1].validated
    /\ HasBinding(ring0[2])
    /\ ~HasVerifiedSignature(ring0[2], "PGP_SIG_REV_SUBKEY")
    /\ ~ring[2].valid
    /\ ring[2].validated

\* a subkey whose primary key is not in the key store, its valid flag set
\* before the call
C40_NoPrimaryWitness ==
    /\ vkey = 2
    /\ ring0[2].subkey
    /\ rnp_key_store_get_key_by_grip(ring0, ring0[2].primary_grip) = 0
    /\ ring0[2].valid
    /\ vret = "RNP_ERROR_BAD_PARAMETERS"
    /\ ~ring[2].valid
    /\ ~ring[2].validated

\* the objects the parse worked on
ParsedObjects == {plog[i].obj : i \in 1 .. Len(plog)}

\* obj is passed to its destroy routine twice with no memset in between
DestroyedAgain(obj) ==
    \E i \in 1 .. Len(plog), j \in 1 .. Len(plog) :
       /\ i < j
       /\ plog[i] = Destroy(obj)
       /\ plog[j] = Destroy(obj)
       /\ \A m \in i + 1 .. j - 1 : plog[m] # Memset(obj)

ParseFailed ==
    /\ sop \in {"process_pgp_key", "process_pgp_keys"}
    /\ pret # "RNP_SUCCESS"

\* C34: when process_pgp_key or process_pgp_keys fails, every transferable
\* key, userid and subkey the parse worked on is passed to its destroy
\* routine, and none is passed to it a second time without a memset in
\* between
C34_DestroyedOnce ==
    ParseFailed =>
       \A obj \in ParsedObjects :
          /\ \E i \in 1 .. Len(plog) : plog[i] = Destroy(obj)
          /\ ~DestroyedAgain(obj)

\* C34 for the userids and the subkeys, and for the key of a failed
\* process_pgp_key: the key process_pgp_keys fails on is left out
C34_UseridsAndSubkeysDestroyedOnce ==
    ParseFailed =>
       \A obj \in ParsedObjects :
          /\ \E i \in 1 .. Len(plog) : plog[i] = Destroy(obj)
          /\ (obj.kind # "key" \/ sop = "process_pgp_key")
                => ~DestroyedAgain(obj)

\* the only objects destroyed twice in a row are the keys process_pgp_key
\* failed on inside process_pgp_keys, and each such key is
C34_FailedKeyDestroyedAgain ==
    (sop = "process_pgp_keys" /\ pret # "RNP_SUCCESS") =>
       \A obj \in ParsedObjects :
          DestroyedAgain(obj) =>
             /\ obj.kind = "key"
             /\ \A other \in ParsedObjects :
                   other.kind = "key" => other.key <= obj.key

\* a userid whose signature does not parse is destroyed by
\* process_pgp_userid, reset, and destroyed once more with its key
C34_UseridReset ==
    /\ ParseFailed
    /\ \E obj \in ParsedObjects :
          /\ obj.kind = "userid"
          /\ \E i \in 1 .. Len(plog) - 2 :
                /\ plog[i] = Destroy(obj)
                /\ plog[i + 1] = Memset(obj)
                /\ \E j \in i + 2 .. Len(plog) : plog[j] = Destroy(obj)

\* the results of the walk that writes the log are those of the parser
ParseLogAgrees ==
    /\ sop = "process_pgp_keys" =>
          process_pgp_keys_log(stream, pfuel).ret = pret
    /\ sop = "process_pgp_key" =>
          process_pgp_key_log(stream, pfuel, 1).ret = pret

====
